---- MODULE Spec2Model ----
(***************************************************************************)
(* DynaFlow, src/src/hybrid_accelerated.c: the hybrid fast/slow-path       *)
(* dispatcher with its flow arena, hash index, direct-mapped cache,        *)
(* Count-Min sketch, pattern recorder, predictor, aging and lifecycle.     *)
(*                                                                         *)
(* 32-bit words are pairs <<hi, lo>> of 16-bit halves, so that the hash    *)
(* is computed as the code computes it without leaving the integers the    *)
(* model checker supports.  The predictor's doubles are fixed-point        *)
(* numbers in units of 1/SCALE.                                            *)
(***************************************************************************)
EXTENDS Integers, Sequences, FiniteSets, TLC

(***************************************************************************)
(* Program constants (src/src/hybrid_accelerated.c).                       *)
(***************************************************************************)
HASH_TABLE_SIZE == 65536
CACHE_SIZE == 8192
SKETCH_WIDTH == 4096
SKETCH_DEPTH == 3
PREDICTION_CACHE_SIZE == 1024
ML_HISTORY_SIZE == 8
CONFIDENCE_FAST_TRACK == 60
CONFIDENCE_ULTRA_FAST == 85
LARGE_FLOW_AREA_SIZE == 50000

\* ProcessingPath
FAST_PATH == 0
ACCELERATED_PATH == 1
ULTRA_FAST_PATH == 2
SLOW_PATH == 3
ADAPTIVE_PATH == 4
DEEP_ANALYSIS_PATH == 5

\* FlowType
NORMAL_FLOW == 0
LARGE_FLOW == 1
BURSTY_FLOW == 2
MICRO_FLOW == 3
DYING_FLOW == 4
PROMOTED_FLOW == 5
SUSPECTED_FLOW == 6

\* AgingStrategy
AGING_LINEAR == 0
AGING_EXPONENTIAL == 1
AGING_ADAPTIVE == 2
AGING_AGGRESSIVE == 3

(***************************************************************************)
(* Bounds of the model.  The periods, the burst threshold, the arena       *)
(* capacity and the width of the hits counter are the source's quantities  *)
(* scaled down so that maintenance, bursts, exhaustion and wrap-around     *)
(* occur within the explored horizon (source values in the comments).      *)
(***************************************************************************)
AGING_INTERVAL == 3          \* 25000 in the source
LIFECYCLE_INTERVAL == 4      \* 100000 in the source (literal in main)
BURST_THRESHOLD == 2         \* 100 in the source
BURST_WINDOW_SIZE == 3       \* 100 in the source
POOL == 11                   \* pool_size, 51500 in the source
HITS_BITS == 4               \* width of FlowEntry.hits, 16 in the source
MaxPackets == 5              \* largest NUM_PACKETS of a dataset
MaxTicks == 1                \* clock advances observed during one run
SKETCH_BITS == 3             \* width of a sketch counter, 32 in the source
MaxDecisions == 9            \* path decisions recorded for one flow
MaxFileLen == 5              \* tokens in a dataset file
QUEUE_CAPACITY == 3          \* entries of the priority queue (64000)
MaxDrops == 2                \* packets dropped by the queue
MaxCycles == 35              \* aging cycles applied to one arena
MaxPasses == 2               \* lifecycle passes applied to one flow
MaxScored == 2               \* packets applied to one flow's promotion score
MaxFlowOps == 3              \* operations applied to one flow in a row
MaxKnownSize == 2
MaxLearnPackets == 4
WarmUp == 3                  \* packets of one key before its steady state

(***************************************************************************)
(* 32-bit arithmetic on <<hi, lo>> pairs.                                  *)
(***************************************************************************)
RECURSIVE Xor16(_, _, _)
Xor16(a, b, n) ==
  IF n = 0 THEN 0
  ELSE ((a + b) % 2) + 2 * Xor16(a \div 2, b \div 2, n - 1)

Xor32(x, y) == <<Xor16(x[1], y[1], 16), Xor16(x[2], y[2], 16)>>

\* the full 32-bit product of two 16-bit numbers
Mul16(a, b) ==
  LET p0 == a * (b % 256)
      p1 == a * (b \div 256)
      s  == p0 + (p1 % 256) * 256
  IN  <<(s \div 65536 + p1 \div 256) % 65536, s % 65536>>

\* x * c modulo 2^32
Mul32(x, c) ==
  LET ll == Mul16(x[2], c[2])
      hl == Mul16(x[1], c[2])
      lh == Mul16(x[2], c[1])
  IN  <<(ll[1] + hl[2] + lh[2]) % 65536, ll[2]>>

Shr16(x) == <<0, x[1]>>
Shr13(x) == <<x[1] \div 8192, (x[1] % 8192) * 8 + x[2] \div 8192>>

Word(k) == <<k \div 65536, k % 65536>>

\* static inline uint32_t fast_hash(uint32_t key)
fast_hash(key) ==
  CHOOSE h \in
    { Xor32(k4, Shr16(k4)) :                              \* key ^= key >> 16
        k4 \in { Mul32(k3, <<49842, 44597>>) :            \* key *= 0xc2b2ae35
          k3 \in { Xor32(k2, Shr13(k2)) :                 \* key ^= key >> 13
            k2 \in { Mul32(k1, <<34283, 51819>>) :        \* key *= 0x85ebca6b
              k1 \in { Xor32(k0, Shr16(k0)) :             \* key ^= key >> 16
                k0 \in {key} } } } } } : TRUE

(***************************************************************************)
(* Inputs: the datasets, each a list of known keys and the keys its        *)
(* packets carry.  5 and 1074 share a hash bucket (hence a cache slot);    *)
(* 26160156 shares the cache slot of 5 but not its bucket, and its sketch  *)
(* cell in the third row only; 53859 and 388638 share their sketch cell in *)
(* all three rows; 0 is the key that the maintenance passes read as "slot  *)
(* unused".                                                                *)
(***************************************************************************)
Datasets ==
  { [ known |-> <<>>, keys |-> {5, 26160156} ],
    [ known |-> <<5, 5>>, keys |-> {0, 5} ],
    [ known |-> <<11, 12, 13, 5, 14, 15, 16, 17, 18, 19>>, keys |-> {0, 5, 1074} ],
    [ known |-> <<>>, keys |-> {53859, 388638} ] }
TickSteps == {1, 30, 2200, 4000}
StartTime == 100000          \* time(NULL) when the program starts

RECURSIVE SeqToSet(_)
SeqToSet(s) == IF s = <<>> THEN {} ELSE {Head(s)} \cup SeqToSet(Tail(s))
\* the numbers a dataset file of the reader's specification can hold
FileNumbers == {0, 1, 5}
AllKeys == UNION {d.keys \cup SeqToSet(d.known) : d \in Datasets} \cup FileNumbers

Min(a, b) == IF a < b THEN a ELSE b
Max(a, b) == IF a > b THEN a ELSE b

\* fast_hash(ip) for the keys of the model, low 16 bits
HashLo == [k \in AllKeys |-> fast_hash(Word(k))[2]]
\* fast_hash(ip) & (HASH_TABLE_SIZE - 1)
BucketOf(ip) == HashLo[ip] % HASH_TABLE_SIZE
\* fast_hash(ip) & (CACHE_SIZE - 1)
CacheIdx(ip) == HashLo[ip] % CACHE_SIZE
\* fast_hash(ip) & (PREDICTION_CACHE_SIZE - 1)
PredIdx(ip) == HashLo[ip] % PREDICTION_CACHE_SIZE

\* sketch->seeds[i]
Seeds == << <<40503, 31161>>, <<34283, 51819>>, <<49842, 44597>> >>
\* fast_hash(ip ^ sketch->seeds[i]) & (SKETCH_WIDTH - 1)
SketchPosTable ==
  [k \in AllKeys |->
     [i \in 1..SKETCH_DEPTH |-> fast_hash(Xor32(Word(k), Seeds[i]))[2] % SKETCH_WIDTH]]
SketchPos(ip, i) == SketchPosTable[ip][i]

\* the cells of the tables that the keys of the model can touch
Buckets == {BucketOf(k) : k \in AllKeys}
CacheSlots == {CacheIdx(k) : k \in AllKeys}
PredSlots == {PredIdx(k) : k \in AllKeys}
SketchCells == {<<i, SketchPos(k, i)>> : k \in AllKeys, i \in 1..SKETCH_DEPTH}

NULL == 0                    \* a null FlowEntry pointer; entries are 1..pool_index
SKETCH_MOD == 2 ^ SKETCH_BITS \* uint32_t counters wrap modulo 2^32 in the source
HITS_MOD == 2 ^ HITS_BITS    \* uint16_t hits wraps modulo 2^16 in the source

(***************************************************************************)
(* FlowEntry.  path_consistency and burst_score are the quotients the code *)
(* stores, kept as <<numerator, denominator>>.  Fields the code only       *)
(* writes (creation_time, last_access_time, total_accesses,                *)
(* aging_multiplier, idle_periods) are left out.                           *)
(***************************************************************************)
\* faulty variant: the new entry is not linked to the former head of its bucket
NewFlow_Unlinked(ip, t, nxt) ==
  [ ip |-> ip, confidence |-> 35, hits |-> 1, packet_count |-> 1,
    last_seen |-> t, flow_type |-> 0, previous_type |-> 0,
    path_history |-> [j \in 0..(ML_HISTORY_SIZE - 1) |-> 0],
    history_index |-> 0, history_filled |-> FALSE,
    path_consistency |-> <<1, 1>>, burst_score |-> <<0, 1>>,
    consecutive_fast_paths |-> 0, recent_promotions |-> 0,
    aging_strategy |-> 1,
    cache_hits |-> 0, promotion_score |-> 100, next |-> 0 ]

\* create_flow_fast, the entry it initialises (memset, then the assignments)
NewFlow(ip, t, nxt) ==
  [ ip |-> ip, confidence |-> 35, hits |-> 1, packet_count |-> 1,
    last_seen |-> t, flow_type |-> NORMAL_FLOW, previous_type |-> NORMAL_FLOW,
    path_history |-> [j \in 0..(ML_HISTORY_SIZE - 1) |-> 0],
    history_index |-> 0, history_filled |-> FALSE,
    path_consistency |-> <<1, 1>>, burst_score |-> <<0, 1>>,
    consecutive_fast_paths |-> 0, recent_promotions |-> 0,
    aging_strategy |-> AGING_EXPONENTIAL,
    cache_hits |-> 0, promotion_score |-> 100, next |-> nxt ]

\* main, the fields it overwrites on a pre-populated known flow
KnownFlow(f) ==
  [f EXCEPT !.confidence = 75, !.hits = 12, !.packet_count = 15,
            !.flow_type = LARGE_FLOW, !.aging_strategy = AGING_ADAPTIVE,
            !.promotion_score = 800,
            !.path_consistency = <<17, 20>>, !.burst_score = <<3, 20>>,
            !.consecutive_fast_paths = 5]

(***************************************************************************)
(* Predictor.  Scores are fixed-point: the linear combination in units of  *)
(* 10^-6, the sigmoid in units of 10^-4 (ML_ONE is 1.0).                   *)
(***************************************************************************)
ML_ONE == 10000

\* extract_ml_features, normalize_features and the linear combination of
\* enhanced_ml_predict: bias + sum of weights[i] * clamp(features[i] / max[i])
LinearScore(flow, t) ==
  LET time_diff == t - flow.last_seen + 1
      f0 == Min(350000, 3500 * flow.confidence)
      f1 == Min(200000, 200 * flow.hits)
      f2 == Min(150000, 15 * flow.packet_count)
      f3 == IF time_diff <= 0 THEN (IF time_diff = 0 THEN 100000 ELSE 0)
            ELSE 100000 \div time_diff
      f4 == Min(80000, (80000 * flow.path_consistency[1]) \div flow.path_consistency[2])
      f5 == Min(50000, (50000 * flow.burst_score[1]) \div flow.burst_score[2])
      f6 == IF flow.hits > 0
            THEN (IF flow.cache_hits >= flow.hits THEN 40000
                  ELSE (40000 * flow.cache_hits) \div flow.hits)
            ELSE 0
      f7 == Min(30000, 3000 * flow.flow_type)
  IN  200000 + f0 + f1 + f2 + f3 + f4 + f5 + f6 + f7

\* exp(z) by its power series, z and the result in units of 1/ML_ONE
RECURSIVE ExpTerms(_, _, _)
ExpTerms(z, term, n) ==
  IF term = 0 \/ n > 24 THEN 0
  ELSE term + ExpTerms(z, (term * z) \div (n * ML_ONE), n + 1)
Exp(z) == ExpTerms(z, ML_ONE, 1)

\* faulty variant: the activation is left out
Sigmoid_Missing(z) == z

\* 1.0 / (1.0 + exp(-prediction))
Sigmoid(z) == (ML_ONE * Exp(z)) \div (ML_ONE + Exp(z))

\* static inline double enhanced_ml_predict(FlowEntry *flow), flow non-null
enhanced_ml_predict(flow, t) == Sigmoid(LinearScore(flow, t) \div 100)

(***************************************************************************)
(* Pattern recorder.                                                       *)
(***************************************************************************)
CountIn(h, size, v) == Cardinality({j \in 0..(size - 1) : h[j] = v})
\* faulty variant: only the path in slot 0 (the initial mode_path) is counted
MaxCount_First(h, size) == CountIn(h, size, h[0])

\* the inner loops of update_flow_pattern: for every slot i, one plus the
\* number of later slots holding the same path; max_count is the largest
MaxCount(h, size) ==
  LET counts == {1 + Cardinality({j \in (i + 1)..(size - 1) : h[j] = h[i]})
                   : i \in 0..(size - 1)}
  IN  CHOOSE c \in counts : \A d \in counts : d <= c
Transitions(h) ==
  Cardinality({j \in 1..(ML_HISTORY_SIZE - 1) : h[j] # h[j - 1]})

\* the test of update_flow_pattern that classes a path as fast
IsFastClass(path) == path <= FAST_PATH

\* static inline void update_flow_pattern(FlowEntry *flow, ProcessingPath path)
update_flow_pattern(flow, path) ==
  LET h == [flow.path_history EXCEPT ![flow.history_index] = path]
      idx == (flow.history_index + 1) % ML_HISTORY_SIZE
      filled == flow.history_filled \/ idx = 0
      size == IF filled THEN ML_HISTORY_SIZE ELSE idx
      cons == IF filled \/ idx >= 4
              THEN <<MaxCount(h, size), size>>
              ELSE flow.path_consistency
      cfp == IF IsFastClass(path) THEN flow.consecutive_fast_paths + 1 ELSE 0
      burst == IF filled
               THEN <<Transitions(h), ML_HISTORY_SIZE - 1>>
               ELSE flow.burst_score
  IN  [flow EXCEPT !.path_history = h, !.history_index = idx,
                   !.history_filled = filled, !.path_consistency = cons,
                   !.consecutive_fast_paths = cfp, !.burst_score = burst]

(***************************************************************************)
(* State.                                                                  *)
(***************************************************************************)
VARIABLES
  now,               \* the wall clock, time(NULL)
  pc,                \* position of main: "prepop", "run", "done"
  dataset,           \* the dataset read by read_dataset_fast
  known_i,           \* index of the pre-population loop of main
  flow_pool,         \* g_table->flow_pool[0 .. pool_index - 1], as 1..pool_index
  buckets,           \* g_table->hash_table->buckets
  fast_cache,        \* g_table->fast_cache
  sketch,            \* g_table->sketch->counters
  prediction_cache,  \* g_table->prediction_cache
  path_counts,       \* g_table->path_counts
  total_processed,   \* g_table->total_processed
  burst,             \* burst ring of the aging manager and the statics of detect_burst_enhanced
  aging,             \* last_aging_cycle, flows_demoted, flows_promoted
  ultra_fast_promotions,
  ticks,             \* clock advances so far
  true_count,        \* history: packets processed so far, per key
  decisions,         \* history: the paths recorded for the flow under test
  pq,                \* the priority queue: entries, drop_count, last entry lost
  visited,           \* history: the arena indices the aging cycles have visited
  known_flows,       \* immediate-learning variant: the cells of known_flows written so far
  known_count,       \* immediate-learning variant: known_count of main
  capacity,          \* immediate-learning variant: capacity of main
  packet_i           \* immediate-learning variant: index i of the packet loop

vars == <<now, pc, dataset, known_i, flow_pool, buckets, fast_cache, sketch,
          prediction_cache, path_counts, total_processed, burst, aging,
          ultra_fast_promotions, ticks, true_count, decisions, pq, visited,
          known_flows, known_count, capacity, packet_i>>

pool_index == Len(flow_pool)
pool_size == POOL

(***************************************************************************)
(* Flow table: lookup and creation.                                        *)
(***************************************************************************)
\* faulty variant: the walk does not stop at the first match and returns the last one
RECURSIVE ChainFind_Last(_, _, _)
ChainFind_Last(pool, entry, ip) ==
  IF entry = NULL THEN NULL
  ELSE LET rest == ChainFind_Last(pool, pool[entry].next, ip)
       IN  IF rest # NULL THEN rest
           ELSE IF pool[entry].ip = ip THEN entry ELSE NULL

\* faulty variant: the walk passes over entries idle for more than 30 minutes
RECURSIVE ChainFind_Fresh(_, _, _)
ChainFind_Fresh(pool, entry, ip) ==
  IF entry = NULL THEN NULL
  ELSE IF pool[entry].ip = ip /\ now - pool[entry].last_seen <= 1800 THEN entry
  ELSE ChainFind_Fresh(pool, pool[entry].next, ip)

\* the while loop of find_flow_fast: the first entry of the chain with this key
RECURSIVE ChainFind(_, _, _)
ChainFind(pool, entry, ip) ==
  IF entry = NULL THEN NULL
  ELSE IF pool[entry].ip = ip THEN entry
  ELSE ChainFind(pool, pool[entry].next, ip)

\* faulty variant: the probe does not compare the key of the cached entry
CacheHit_NoKeyTest(pool, cache, ip) == cache[CacheIdx(ip)] # NULL

\* the cache probe of find_flow_fast
CacheHit(pool, cache, ip) ==
  cache[CacheIdx(ip)] # NULL /\ pool[cache[CacheIdx(ip)]].ip = ip

\* static inline FlowEntry *find_flow_fast(uint32_t ip)
find_flow_fast(pool, heads, cache, ip) ==
  IF CacheHit(pool, cache, ip)
  THEN LET e == cache[CacheIdx(ip)]
       IN  [ flow |-> e, cache |-> cache,
             pool |-> [pool EXCEPT ![e].cache_hits = @ + 1] ]
  ELSE LET e == ChainFind(pool, heads[BucketOf(ip)], ip)
       IN  [ flow |-> e,
             cache |-> IF e # NULL THEN [cache EXCEPT ![CacheIdx(ip)] = e] ELSE cache,
             pool |-> pool ]

\* static inline FlowEntry *create_flow_fast(uint32_t ip)
create_flow_fast(pool, heads, ip, t) ==
  IF Len(pool) >= pool_size
  THEN [ flow |-> NULL, pool |-> pool, heads |-> heads ]
  ELSE [ flow |-> Len(pool) + 1,
         pool |-> Append(pool, NewFlow(ip, t, heads[BucketOf(ip)])),
         heads |-> [heads EXCEPT ![BucketOf(ip)] = Len(pool) + 1] ]

(***************************************************************************)
(* Sketch.                                                                 *)
(***************************************************************************)
\* static inline void sketch_update_fast(FastSketch *sketch, uint32_t ip)
sketch_update_fast(sk, ip) ==
  [c \in SketchCells |->
     IF c[2] = SketchPos(ip, c[1]) THEN (sk[c] + 1) % SKETCH_MOD ELSE sk[c]]

\* faulty variant: the query returns the largest of the three cells
sketch_query_fast_Max(sk, ip) ==
  LET vals == {sk[<<i, SketchPos(ip, i)>>] : i \in 1..SKETCH_DEPTH}
  IN  CHOOSE v \in vals : \A w \in vals : v >= w

\* static inline uint32_t sketch_query_fast(FastSketch *sketch, uint32_t ip)
sketch_query_fast(sk, ip) ==
  LET vals == {sk[<<i, SketchPos(ip, i)>>] : i \in 1..SKETCH_DEPTH}
  IN  CHOOSE v \in vals : \A w \in vals : v <= w

(***************************************************************************)
(* Burst detection and promotion.                                          *)
(***************************************************************************)
RECURSIVE SumTo(_, _)
SumTo(h, n) == IF n < 0 THEN 0 ELSE h[n] + SumTo(h, n - 1)

\* static inline int detect_burst_enhanced()
detect_burst_enhanced(b, tp, t) ==
  IF t # b.last_check
  THEN LET packets_this_second == tp - b.last_packet_count
           hist == [b.burst_history EXCEPT ![b.burst_index] = packets_this_second]
           total == SumTo(hist, BURST_WINDOW_SIZE - 1)
       IN  [ detected |-> /\ packets_this_second * BURST_WINDOW_SIZE > total * 2
                          /\ packets_this_second > BURST_THRESHOLD,
             burst |-> [ burst_history |-> hist,
                         burst_index |-> (b.burst_index + 1) % BURST_WINDOW_SIZE,
                         last_packet_count |-> tp,
                         last_check |-> t ] ]
  ELSE [ detected |-> FALSE, burst |-> b ]

\* faulty variant: the fast-track promotion is applied without its confidence guard
FastTrackGuard_Missing(flow) == TRUE

\* the guard of the fast-track promotion of maybe_promote_burst
FastTrackGuard(flow) == flow.confidence < CONFIDENCE_FAST_TRACK

\* static inline void maybe_promote_burst(FlowEntry *flow), flow non-null,
\* after detect_burst_enhanced has returned true
PromoteOnBurst(flow, t) ==
  LET ml_score == enhanced_ml_predict(flow, t)
  IN  IF ml_score > 7500 /\ flow.consecutive_fast_paths >= 3
      THEN IF flow.confidence < CONFIDENCE_ULTRA_FAST
           THEN [ flow |-> [flow EXCEPT !.confidence = CONFIDENCE_ULTRA_FAST,
                                        !.previous_type = flow.flow_type,
                                        !.flow_type = PROMOTED_FLOW,
                                        !.recent_promotions = @ + 1],
                  promoted |-> 1 ]
           ELSE [ flow |-> flow, promoted |-> 0 ]
      ELSE IF ml_score > 5500 /\ flow.consecutive_fast_paths >= 2
      THEN IF FastTrackGuard(flow)
           THEN [ flow |-> [flow EXCEPT !.confidence = CONFIDENCE_FAST_TRACK,
                                        !.flow_type = BURSTY_FLOW],
                  promoted |-> 0 ]
           ELSE [ flow |-> flow, promoted |-> 0 ]
      ELSE [ flow |-> flow, promoted |-> 0 ]

\* static inline void maybe_promote_burst(FlowEntry *flow), flow non-null
maybe_promote_burst(flow, b, tp, t) ==
  LET d == detect_burst_enhanced(b, tp, t)
      p == IF d.detected THEN PromoteOnBurst(flow, t)
           ELSE [ flow |-> flow, promoted |-> 0 ]
  IN  [ flow |-> p.flow, promoted |-> p.promoted, burst |-> d.burst,
        detected |-> d.detected ]

(***************************************************************************)
(* Path selection.                                                         *)
(***************************************************************************)
\* static inline double check_prediction_cache(uint32_t ip): the entry is used
PredictionValid(pcache, ip, t) ==
  /\ pcache[PredIdx(ip)].ip = ip
  /\ (t - pcache[PredIdx(ip)].timestamp) < 30

\* faulty variant: the entry is written without its timestamp
update_prediction_cache_NoStamp(pcache, ip, prediction, path, t) ==
  [pcache EXCEPT ![PredIdx(ip)] =
     [ ip |-> ip, prediction |-> prediction, suggested_path |-> path,
       timestamp |-> 0 ]]

\* static inline void update_prediction_cache(...)
update_prediction_cache(pcache, ip, prediction, path, t) ==
  [pcache EXCEPT ![PredIdx(ip)] =
     [ ip |-> ip, prediction |-> prediction, suggested_path |-> path,
       timestamp |-> t ]]

\* faulty variant: the third branch names the wrong member of ProcessingPath
MainRule_Deep(flow, ml_prediction) ==
  IF flow.confidence >= CONFIDENCE_ULTRA_FAST /\ ml_prediction > 7000
  THEN ULTRA_FAST_PATH
  ELSE IF flow.confidence >= CONFIDENCE_FAST_TRACK /\ ml_prediction > 5000
  THEN FAST_PATH
  ELSE IF ml_prediction > 6000 \/ flow.consecutive_fast_paths >= 3
  THEN DEEP_ANALYSIS_PATH
  ELSE ACCELERATED_PATH

\* the main rule of select_path_enhanced
MainRule(flow, ml_prediction) ==
  IF flow.confidence >= CONFIDENCE_ULTRA_FAST /\ ml_prediction > 7000
  THEN ULTRA_FAST_PATH
  ELSE IF flow.confidence >= CONFIDENCE_FAST_TRACK /\ ml_prediction > 5000
  THEN FAST_PATH
  ELSE IF ml_prediction > 6000 \/ flow.consecutive_fast_paths >= 3
  THEN ADAPTIVE_PATH
  ELSE ACCELERATED_PATH

\* static inline ProcessingPath select_path_enhanced(uint32_t ip, FlowEntry *flow),
\* flow non-null
select_path_enhanced(ip, flow, pcache, t) ==
  IF flow.hits > 2 /\ PredictionValid(pcache, ip, t)
  THEN LET cached_prediction == pcache[PredIdx(ip)].prediction
       IN  [ path |-> IF cached_prediction > 8000 THEN ULTRA_FAST_PATH
                      ELSE IF cached_prediction > 6000 THEN FAST_PATH
                      ELSE IF cached_prediction > 4000 THEN ACCELERATED_PATH
                      ELSE ADAPTIVE_PATH,
             pcache |-> pcache ]
  ELSE IF flow.hits = 1
  THEN [ path |-> ACCELERATED_PATH, pcache |-> pcache ]
  ELSE LET ml_prediction == enhanced_ml_predict(flow, t)
           selected_path == MainRule(flow, ml_prediction)
       IN  [ path |-> selected_path,
             pcache |-> IF flow.hits > 2
                        THEN update_prediction_cache(pcache, ip, ml_prediction,
                                                     selected_path, t)
                        ELSE pcache ]

\* select_path_enhanced with a null flow ("New flow handling")
SketchOnlyPath(sk, ip) ==
  IF sketch_query_fast(sk, ip) > 8 THEN ACCELERATED_PATH ELSE SLOW_PATH

(***************************************************************************)
(* Dispatcher.                                                             *)
(***************************************************************************)
\* process_packet_optimized, "Smart confidence updates"
ConfidenceBoost(flow, t) ==
  IF flow.hits % 4 = 0 /\ flow.confidence < 100
  THEN LET ml_score == enhanced_ml_predict(flow, t)
           total_boost == 4 + (ml_score * 6) \div ML_ONE
       IN  IF flow.confidence + total_boost > 100 THEN 100
           ELSE flow.confidence + total_boost
  ELSE flow.confidence

\* process_packet_optimized, "Enhanced flow type classification"
Classify(flow) ==
  IF flow.packet_count > 800 /\ flow.flow_type # LARGE_FLOW
  THEN [flow EXCEPT !.previous_type = flow.flow_type, !.flow_type = LARGE_FLOW,
                    !.aging_strategy = AGING_ADAPTIVE]
  ELSE IF flow.burst_score[1] * 10 > 6 * flow.burst_score[2] /\ flow.hits > 10
  THEN IF flow.flow_type # BURSTY_FLOW /\ flow.flow_type # PROMOTED_FLOW
       THEN [flow EXCEPT !.previous_type = flow.flow_type,
                         !.flow_type = BURSTY_FLOW,
                         !.aging_strategy = AGING_LINEAR]
       ELSE flow
  ELSE IF flow.packet_count < 10 /\ flow.hits < 5
  THEN [flow EXCEPT !.flow_type = MICRO_FLOW, !.aging_strategy = AGING_AGGRESSIVE]
  ELSE flow

\* process_packet_optimized, "Anomaly detection"
Anomaly(flow) ==
  IF /\ flow.history_filled
     /\ flow.path_consistency[1] * 10 < 3 * flow.path_consistency[2]
     /\ flow.flow_type # SUSPECTED_FLOW
     /\ flow.hits > 8
  THEN [flow EXCEPT !.previous_type = flow.flow_type, !.flow_type = SUSPECTED_FLOW]
  ELSE flow

\* faulty variant: the branches of the upper clamp are swapped
PromotionScore_Swapped(score, path) ==
  IF path <= FAST_PATH
  THEN (IF score < 950 THEN 1000 ELSE score + 10)
  ELSE IF path >= SLOW_PATH
  THEN (IF score > 50 THEN score - 5 ELSE 0)
  ELSE score

\* process_packet_optimized, "Promotion score updates"
PromotionScore(score, path) ==
  IF path <= FAST_PATH
  THEN (IF score < 950 THEN score + 10 ELSE 1000)
  ELSE IF path >= SLOW_PATH
  THEN (IF score > 50 THEN score - 5 ELSE 0)
  ELSE score

\* process_packet_optimized from update_stats on, for a non-null flow
UpdateStats(flow, path, t) ==
  LET f1 == [flow EXCEPT !.hits = (@ + 1) % HITS_MOD,
                         !.packet_count = @ + 1,
                         !.last_seen = t]
      f2 == [f1 EXCEPT !.confidence = ConfidenceBoost(f1, t)]
      f3 == Anomaly(Classify(f2))
  IN  [f3 EXCEPT !.promotion_score = PromotionScore(@, path)]

\* the values the uninitialised local `path` can hold at update_stats when
\* the goto has skipped its initialisation: one of each class of the
\* promotion-score test
UBPaths == {FAST_PATH, ACCELERATED_PATH, SLOW_PATH}

\* process_packet_optimized up to and including the update of the flow
\* statistics (everything before total_processed++)
\* process_packet_optimized, "Fast path for existing flows", from the path
\* selection on: update_flow_pattern, the path counter and update_stats
DispatchSelected(found, pr, sel) ==
  [ flow |-> found.flow, created |-> FALSE, path |-> sel.path,
    counts |-> [path_counts EXCEPT ![sel.path] = @ + 1],
    pool |-> [found.pool EXCEPT ![found.flow] =
                UpdateStats(update_flow_pattern(pr.flow, sel.path), sel.path, now)],
    heads |-> buckets, cache |-> found.cache,
    pcache |-> sel.pcache, burst |-> pr.burst,
    promoted |-> pr.promoted ]

\* process_packet_optimized, "Fast path for existing flows", after
\* maybe_promote_burst
DispatchExisting(ip, found, pr) ==
  DispatchSelected(found, pr,
                   select_path_enhanced(ip, pr.flow, prediction_cache, now))

\* process_packet_optimized, "Create new flow": cr is what create_flow_fast
\* returned; with no entry nothing is dispatched and nothing is counted
DispatchCreated(found, cr, ubpath) ==
  IF cr.flow # NULL
  THEN [ flow |-> cr.flow, created |-> TRUE,
         path |-> ACCELERATED_PATH,
         counts |-> [path_counts EXCEPT ![ACCELERATED_PATH] = @ + 1],
         pool |-> [cr.pool EXCEPT ![cr.flow] =
                     UpdateStats(update_flow_pattern(@, ACCELERATED_PATH),
                                 ubpath, now)],
         heads |-> cr.heads, cache |-> found.cache,
         pcache |-> prediction_cache, burst |-> burst,
         promoted |-> 0 ]
  ELSE [ flow |-> NULL, created |-> FALSE, path |-> -1,
         counts |-> path_counts, pool |-> flow_pool,
         heads |-> buckets, cache |-> found.cache,
         pcache |-> prediction_cache, burst |-> burst,
         promoted |-> 0 ]

\* process_packet_optimized after find_flow_fast
DispatchFound(ip, ubpath, found) ==
  IF found.flow = NULL
  THEN DispatchCreated(found, create_flow_fast(flow_pool, buckets, ip, now), ubpath)
  ELSE DispatchExisting(ip, found,
                        maybe_promote_burst(found.pool[found.flow], burst,
                                            total_processed, now))

Dispatch(ip, ubpath) ==
  DispatchFound(ip, ubpath, find_flow_fast(flow_pool, buckets, fast_cache, ip))

(***************************************************************************)
(* Aging.                                                                  *)
(***************************************************************************)
\* the results a conversion of a double <= -1 to uint16_t can give (undefined
\* behaviour): zero, the value wrapped modulo 2^16, the largest value
UBConversions == {"zero", "wrap", "max"}
UBValue(magnitude, ub) ==
  IF ub = "zero" THEN 0
  ELSE IF ub = "max" THEN 65535
  ELSE (65536 - (magnitude % 65536)) % 65536

\* apply_aging_strategy, case AGING_ADAPTIVE
AdaptiveAging(flow, idle_time, t, ub) ==
  LET ml_score == enhanced_ml_predict(flow, t)
      protection == (ml_score * 8) \div 10
      decay == (idle_time * (ML_ONE - protection)) \div 1200
      keep == ML_ONE - decay
  IN  IF keep >= 0
      THEN (flow.confidence * keep) \div ML_ONE
      ELSE LET whole == flow.confidence * ((-keep) \div ML_ONE)
                        + (flow.confidence * ((-keep) % ML_ONE)) \div ML_ONE
           IN  IF whole = 0 THEN 0 ELSE UBValue(whole, ub)

\* static inline void apply_aging_strategy(FlowEntry *flow, AgingStrategy strategy)
apply_aging_strategy(flow, strategy, t, ub) ==
  LET idle_time == t - flow.last_seen
  IN  CASE strategy = AGING_LINEAR ->
             IF idle_time > 180
             THEN [flow EXCEPT !.confidence = IF @ > 3 THEN @ - 3 ELSE 0]
             ELSE flow
        [] strategy = AGING_EXPONENTIAL ->
             IF idle_time > 60
             THEN [flow EXCEPT !.confidence =
                     IF 600 - idle_time < 60 THEN @ \div 10
                     ELSE (@ * (600 - idle_time)) \div 600]
             ELSE flow
        [] strategy = AGING_ADAPTIVE ->
             [flow EXCEPT !.confidence = AdaptiveAging(flow, idle_time, t, ub)]
        [] strategy = AGING_AGGRESSIVE ->
             IF idle_time > 90
             THEN LET c == IF flow.confidence > 8 THEN flow.confidence - 8 ELSE 0
                  IN  [flow EXCEPT !.confidence = c,
                                   !.flow_type = IF c < 15 THEN DYING_FLOW ELSE @]
             ELSE flow

\* enhanced_aging_cycle, "Check for demotion"
DemoteAged(f) ==
  IF f.confidence < 10 /\ f.flow_type # DYING_FLOW
  THEN [ flow |-> [f EXCEPT !.previous_type = f.flow_type,
                            !.flow_type = DYING_FLOW],
         demoted |-> 1 ]
  ELSE [ flow |-> f, demoted |-> 0 ]

\* the body of the loop of enhanced_aging_cycle for one flow
AgeFlow(flow, t, ub) ==
  IF flow.ip # 0
  THEN DemoteAged(apply_aging_strategy(flow, flow.aging_strategy, t, ub))
  ELSE [ flow |-> flow, demoted |-> 0 ]

\* the loop of enhanced_aging_cycle from iteration i on
RECURSIVE AgeSlice(_, _, _, _, _, _, _)
AgeSlice(pool, demoted, i, flows_to_age, tp, t, ub) ==
  IF i < flows_to_age /\ i < Len(pool)
  THEN LET flow_idx == ((tp + i) % Len(pool)) + 1
           r == AgeFlow(pool[flow_idx], t, ub)
       IN  AgeSlice([pool EXCEPT ![flow_idx] = r.flow], demoted + r.demoted,
                    i + 1, flows_to_age, tp, t, ub)
  ELSE [ pool |-> pool, demoted |-> demoted ]

\* the arena indices the loop of enhanced_aging_cycle visits, none when the
\* cycle returns early
AgedIndices(size, ag, tp, t) ==
  IF t - ag.last_aging_cycle < 30 THEN {}
  ELSE {((tp + i) % size) + 1 : i \in 0..(Min(size \div 10, size) - 1)}

\* static inline void enhanced_aging_cycle()
enhanced_aging_cycle(pool, ag, tp, t, ub) ==
  IF t - ag.last_aging_cycle < 30
  THEN [ pool |-> pool, aging |-> ag ]
  ELSE LET flows_to_age == Len(pool) \div 10
           r == AgeSlice(pool, 0, 0, flows_to_age, tp, t, ub)
       IN  [ pool |-> r.pool,
             aging |-> [ag EXCEPT !.last_aging_cycle = t,
                                  !.flows_demoted = @ + r.demoted] ]

(***************************************************************************)
(* Lifecycle.                                                              *)
(***************************************************************************)
LIFECYCLE_SCOPE == 1000

\* manage_flow_lifecycle, "Promote promising flows"
LifecyclePromotes(flow, ml_score) ==
  /\ flow.flow_type = NORMAL_FLOW
  /\ ml_score > 7500
  /\ flow.promotion_score > 700
  /\ flow.hits > 8

\* faulty variant: the demotion tests for the wrong flow type
LifecycleDemotes_WrongType(flow, ml_score, idle_time) ==
  /\ flow.flow_type = DYING_FLOW
  /\ (ml_score < 4000 \/ idle_time > 300 \/ flow.promotion_score < 200)

\* manage_flow_lifecycle, "Demote underperforming promoted flows"
LifecycleDemotes(flow, ml_score, idle_time) ==
  /\ flow.flow_type = PROMOTED_FLOW
  /\ (ml_score < 4000 \/ idle_time > 300 \/ flow.promotion_score < 200)

\* the confidence a demotion leaves
DemotedConfidence(c) == IF c > 15 THEN c - 15 ELSE 10

\* manage_flow_lifecycle, "Age out dying flows": f2 is the flow after the
\* promotion (p) and the demotion (d)
LifecycleRetire(f2, p, d, idle_time) ==
  [ flow |-> IF f2.flow_type = DYING_FLOW /\ idle_time > 900
             THEN [f2 EXCEPT !.confidence = 0]
             ELSE f2,
    promoted |-> IF p THEN 1 ELSE 0,
    demoted |-> IF d THEN 1 ELSE 0 ]

\* manage_flow_lifecycle, the demotion: f1 is the flow after the promotion
LifecycleDemote(f1, p, d, idle_time) ==
  LifecycleRetire(IF d
                  THEN [f1 EXCEPT !.flow_type = f1.previous_type,
                                  !.confidence = DemotedConfidence(f1.confidence)]
                  ELSE f1,
                  p, d, idle_time)

\* manage_flow_lifecycle, the promotion
LifecyclePromote(flow, p) ==
  IF p
  THEN [flow EXCEPT !.previous_type = flow.flow_type,
                    !.flow_type = PROMOTED_FLOW,
                    !.confidence = CONFIDENCE_FAST_TRACK]
  ELSE flow

\* the body of the loop of manage_flow_lifecycle with idle_time and ml_score
\* computed: the demotion test reads the flow the promotion has written
LifecycleScored(flow, idle_time, ml_score) ==
  LifecycleDemote(LifecyclePromote(flow, LifecyclePromotes(flow, ml_score)),
                  LifecyclePromotes(flow, ml_score),
                  LifecycleDemotes(LifecyclePromote(flow, LifecyclePromotes(flow, ml_score)),
                                   ml_score, idle_time),
                  idle_time)

\* the body of the loop of manage_flow_lifecycle for one flow
LifecycleFlow(flow, t) ==
  IF flow.ip = 0
  THEN [ flow |-> flow, promoted |-> 0, demoted |-> 0 ]
  ELSE LifecycleScored(flow, t - flow.last_seen, enhanced_ml_predict(flow, t))

RECURSIVE SumOver(_, _, _)
SumOver(r, n, field) ==
  IF n = 0 THEN 0 ELSE r[n][field] + SumOver(r, n - 1, field)

\* static inline void manage_flow_lifecycle()
manage_flow_lifecycle(pool, ag, t) ==
  LET n == Min(Len(pool), LIFECYCLE_SCOPE)
      r == [i \in 1..n |-> LifecycleFlow(pool[i], t)]
  IN  [ pool |-> [i \in 1..Len(pool) |-> IF i <= n THEN r[i].flow ELSE pool[i]],
        aging |-> [ag EXCEPT !.flows_promoted = @ + SumOver(r, n, "promoted"),
                             !.flows_demoted = @ + SumOver(r, n, "demoted")] ]

(***************************************************************************)
(* The driver: main.                                                       *)
(***************************************************************************)
Init ==
  /\ now = StartTime
  /\ pc = "prepop"
  /\ dataset \in Datasets
  /\ known_i = 1
  /\ flow_pool = <<>>
  /\ buckets = [b \in Buckets |-> NULL]
  /\ fast_cache = [c \in CacheSlots |-> NULL]
  /\ sketch = [c \in SketchCells |-> 0]
  /\ prediction_cache =
       [s \in PredSlots |-> [ ip |-> 0, prediction |-> 0,
                              suggested_path |-> 0, timestamp |-> 0 ]]
  /\ path_counts = [p \in 0..5 |-> 0]
  /\ total_processed = 0
  /\ burst = [ burst_history |-> [j \in 0..(BURST_WINDOW_SIZE - 1) |-> 0],
               burst_index |-> 0, last_packet_count |-> 0, last_check |-> 0 ]
  /\ aging = [ last_aging_cycle |-> StartTime, flows_demoted |-> 0,
               flows_promoted |-> 0 ]
  /\ ultra_fast_promotions = 0
  /\ ticks = 0
  /\ true_count = [k \in AllKeys |-> 0]
  /\ decisions = <<>>
  /\ pq = [ entries |-> <<>>, drop_count |-> 0, lost |-> <<>> ]
  /\ visited = {}
  /\ known_flows = <<>>
  /\ known_count = 0
  /\ capacity = 0
  /\ packet_i = 0

\* main, one iteration of "Pre-populate known flows"
Prepopulate ==
  /\ pc = "prepop"
  /\ known_i <= Len(dataset.known)
  /\ known_i <= LARGE_FLOW_AREA_SIZE
  /\ LET cr == create_flow_fast(flow_pool, buckets, dataset.known[known_i], now)
     IN  IF dataset.known[known_i] > 0 /\ cr.flow # NULL
         THEN /\ flow_pool' = [cr.pool EXCEPT ![cr.flow] = KnownFlow(@)]
              /\ buckets' = cr.heads
         ELSE UNCHANGED <<flow_pool, buckets>>
  /\ known_i' = known_i + 1
  /\ UNCHANGED <<now, pc, dataset, fast_cache, sketch, prediction_cache, path_counts,
                 total_processed, burst, aging, ultra_fast_promotions, ticks,
                 true_count, decisions, pq, visited,
               known_flows, known_count, capacity, packet_i>>

\* main, the end of the pre-population loop
StartProcessing ==
  /\ pc = "prepop"
  /\ (known_i > Len(dataset.known) \/ known_i > LARGE_FLOW_AREA_SIZE)
  /\ pc' = "run"
  /\ UNCHANGED <<now, dataset, known_i, flow_pool, buckets, fast_cache, sketch,
                 prediction_cache, path_counts, total_processed, burst, aging,
                 ultra_fast_promotions, ticks, true_count, decisions, pq, visited,
               known_flows, known_count, capacity, packet_i>>

\* the clock advances between two packets
Tick(d) ==
  /\ pc = "run"
  /\ ticks < MaxTicks
  /\ now' = now + d
  /\ ticks' = ticks + 1
  /\ UNCHANGED <<pc, dataset, known_i, flow_pool, buckets, fast_cache, sketch,
                 prediction_cache, path_counts, total_processed, burst, aging,
                 ultra_fast_promotions, true_count, decisions, pq, visited,
               known_flows, known_count, capacity, packet_i>>

\* main, one iteration of the packet loop: process_packet_optimized(packets[i])
\* and the periodic manage_flow_lifecycle
Packet(ip, ubpath, ub) ==
  /\ pc = "run"
  /\ total_processed < MaxPackets
  /\ \E d \in {Dispatch(ip, ubpath)} :
       \E a \in {IF (total_processed + 1) % AGING_INTERVAL = 0
                 THEN enhanced_aging_cycle(d.pool, aging, total_processed + 1,
                                           now, ub)
                 ELSE [ pool |-> d.pool, aging |-> aging ]} :
         \E l \in {IF total_processed % LIFECYCLE_INTERVAL = 0 /\ total_processed > 0
                   THEN manage_flow_lifecycle(
                          a.pool,
                          [a.aging EXCEPT !.flows_promoted = @ + d.promoted], now)
                   ELSE [ pool |-> a.pool,
                          aging |-> [a.aging EXCEPT
                                       !.flows_promoted = @ + d.promoted] ]} :
           /\ sketch' = sketch_update_fast(sketch, ip)
           /\ flow_pool' = l.pool
           /\ aging' = l.aging
           /\ buckets' = d.heads
           /\ fast_cache' = d.cache
           /\ prediction_cache' = d.pcache
           /\ path_counts' = d.counts
           /\ burst' = d.burst
           /\ ultra_fast_promotions' = ultra_fast_promotions + d.promoted
           /\ total_processed' = total_processed + 1
  /\ true_count' = [true_count EXCEPT ![ip] = @ + 1]
  /\ visited' = visited \cup
                  (IF (total_processed + 1) % AGING_INTERVAL = 0
                   THEN AgedIndices(Len(flow_pool'), aging, total_processed + 1, now)
                   ELSE {})
  /\ UNCHANGED <<now, pc, dataset, known_i, ticks, decisions, pq,
               known_flows, known_count, capacity, packet_i>>

\* main after the last packet: "Final lifecycle management"
Finish ==
  /\ pc = "run"
  /\ LET l == manage_flow_lifecycle(flow_pool, aging, now)
     IN  /\ flow_pool' = l.pool
         /\ aging' = l.aging
  /\ pc' = "done"
  /\ UNCHANGED <<now, dataset, known_i, buckets, fast_cache, sketch, prediction_cache,
                 path_counts, total_processed, burst,
                 ultra_fast_promotions, ticks, true_count, decisions, pq, visited,
               known_flows, known_count, capacity, packet_i>>

\* the flow a packet of this key would be served from, NULL if none
Lookup(ip) == find_flow_fast(flow_pool, buckets, fast_cache, ip).flow

\* the undefined values are enumerated only where the code reads them
ProcessPacket ==
  \E ip \in dataset.keys :
    \E ubpath \in (IF Lookup(ip) = NULL THEN UBPaths ELSE {ACCELERATED_PATH}) :
      \E ub \in (IF (total_processed + 1) % AGING_INTERVAL = 0
                 THEN UBConversions ELSE {"zero"}) :
        Packet(ip, ubpath, ub)

ClockTick == \E d \in TickSteps : Tick(d)

Next ==
  \/ Prepopulate
  \/ StartProcessing
  \/ ClockTick
  \/ ProcessPacket
  \/ Finish

Spec == Init /\ [][Next]_vars

(***************************************************************************)
(* Properties.                                                             *)
(***************************************************************************)
Flows == 1..Len(flow_pool)
PathTotal ==
  path_counts[0] + path_counts[1] + path_counts[2] + path_counts[3]
    + path_counts[4] + path_counts[5]
ArenaFull == pool_index >= pool_size

\* the step is the processing of a packet of key ip
IsPacketOf(ip) ==
  /\ pc = "run"
  /\ total_processed' = total_processed + 1
  /\ true_count'[ip] = true_count[ip] + 1

\* C1: after any sequence of packets the six per-path counters sum to the
\* number of packets processed, also when the arena is full and packets
\* arrive for keys without a flow entry.
C1_CountersSumToProcessed == PathTotal = total_processed

\* C2: a packet for a key without flow entry that arrives when the arena is
\* full creates no entry and is dispatched on the path chosen from the sketch
\* alone (Accelerated if query > 8, else Slow), whose counter is incremented.
C2_ExhaustedPacketDispatched ==
  [][\A ip \in dataset.keys :
       (IsPacketOf(ip) /\ ArenaFull /\ Lookup(ip) = NULL)
         => /\ Len(flow_pool') = Len(flow_pool)
            /\ path_counts' =
                 [path_counts EXCEPT ![SketchOnlyPath(sketch', ip)] = @ + 1]]_vars

\* C3: every flow entry has confidence <= 100 in every reachable state.
C3_ConfidenceAtMost100 == \A i \in Flows : flow_pool[i].confidence <= 100

\* C4: every flow entry has promotion_score within 0..1000 in every reachable
\* state, also after the packet that creates the flow.
C4_PromotionScoreInRange ==
  \A i \in Flows :
    flow_pool[i].promotion_score >= 0 /\ flow_pool[i].promotion_score <= 1000

\* C4 witness: a flow just created by the dispatcher whose post-update has
\* moved the promotion score off its creation value without a selected path.
C4_Witness ==
  \E i \in Flows :
    /\ flow_pool[i].packet_count = 2
    /\ flow_pool[i].flow_type = MICRO_FLOW
    /\ flow_pool[i].promotion_score \in {95, 110}

\* C5: hits and packet_count of a flow never decrease.
C5_HitsNeverDecrease ==
  [][\A i \in Flows :
       /\ flow_pool'[i].hits >= flow_pool[i].hits
       /\ flow_pool'[i].packet_count >= flow_pool[i].packet_count]_vars

\* C6: every live flow entry satisfies packet_count >= hits >= 1.
C6_PacketCountHitsOrder ==
  \A i \in Flows :
    flow_pool[i].packet_count >= flow_pool[i].hits /\ flow_pool[i].hits >= 1

\* C7: processing a packet (lookup or create, burst promotion, path
\* selection, post-update of the flow state) lowers the confidence of no
\* flow, whichever key the packet carries.
C7_DispatchNeverLowersConfidence ==
  pc = "run" =>
    \A ip \in dataset.keys : \A ubpath \in UBPaths :
      \A i \in Flows :
        Dispatch(ip, ubpath).pool[i].confidence >= flow_pool[i].confidence

\* C7 witness: a flow that a burst promotion has raised to the fast-track
\* confidence (Bursty while still aged adaptively: only maybe_promote_burst
\* leaves that combination).
C7_Witness ==
  \E i \in Flows :
    /\ flow_pool[i].flow_type = BURSTY_FLOW
    /\ flow_pool[i].aging_strategy = AGING_ADAPTIVE
    /\ flow_pool[i].confidence = CONFIDENCE_FAST_TRACK

Retired(f) == f.flow_type = DYING_FLOW /\ f.confidence = 0

\* C9 as claimed: once a flow is Dying no later step increases its
\* confidence until it is retired.
C9_DyingNeverGains ==
  [][\A i \in Flows :
       (flow_pool[i].flow_type = DYING_FLOW /\ ~Retired(flow_pool[i]))
         => flow_pool'[i].confidence <= flow_pool[i].confidence]_vars

\* C9 amended: a lifecycle pass never increases the confidence of a Dying
\* flow (it leaves it or retires it to 0); packets for its key can.
C9_LifecycleNeverRaisesDying ==
  \A i \in Flows :
    flow_pool[i].flow_type = DYING_FLOW
      => manage_flow_lifecycle(flow_pool, aging, now).pool[i].confidence
           <= flow_pool[i].confidence

\* C9 witness: a Dying flow that the final lifecycle pass has retired.
C9_Witness ==
  /\ pc = "done"
  /\ \E i \in Flows :
       /\ Retired(flow_pool[i])
       /\ now - flow_pool[i].last_seen > 900

\* the entries of a bucket chain in the order a walk meets them
RECURSIVE ChainSeq(_, _)
ChainSeq(entry, fuel) ==
  IF entry = NULL \/ fuel = 0 THEN <<>>
  ELSE <<entry>> \o ChainSeq(flow_pool[entry].next, fuel - 1)
\* the entry a walk of the chain of ip's bucket returns: the first with that key
Canonical(ip) ==
  LET chain == ChainSeq(buckets[BucketOf(ip)], pool_index)
      hits == {n \in 1..Len(chain) : flow_pool[chain[n]].ip = ip}
  IN  IF hits = {} THEN NULL
      ELSE chain[CHOOSE n \in hits : \A m \in hits : n <= m]

\* C10: every non-null slot of the direct-mapped cache references an
\* allocated entry whose key hashes to that slot and which is the entry a
\* walk of that key's bucket chain returns.
C10_CacheCoherent ==
  \A s \in CacheSlots :
    fast_cache[s] # NULL
      => /\ fast_cache[s] \in Flows
         /\ CacheIdx(flow_pool[fast_cache[s]].ip) = s
         /\ Canonical(flow_pool[fast_cache[s]].ip) = fast_cache[s]

\* C10 witness: a cache slot that serves one key while another allocated
\* flow maps to the same slot (the slot has been contended).
C10_Witness ==
  \E s \in CacheSlots : \E i \in Flows :
    /\ fast_cache[s] # NULL
    /\ fast_cache[s] # i
    /\ CacheIdx(flow_pool[i].ip) = s
    /\ flow_pool[i].ip # flow_pool[fast_cache[s]].ip
    /\ flow_pool[i].cache_hits > 0


\* the entries of the chain of bucket b in the order a walk meets them (the
\* walk is cut after pool_index + 1 links)
ChainOf(b) == ChainSeq(buckets[b], pool_index + 1)

\* C11: every allocated arena entry appears exactly once in exactly one
\* bucket chain, the chain of bucket hash(key) mod HASH_TABLE_SIZE; chains
\* are acyclic; the number of chained entries equals pool_index, which never
\* exceeds the arena capacity.
C11_ArenaChained ==
  /\ pool_index <= pool_size
  /\ \A b \in Buckets :
       /\ Len(ChainOf(b)) <= pool_index
       /\ \A n \in 1..Len(ChainOf(b)) :
            /\ ChainOf(b)[n] \in Flows
            /\ BucketOf(flow_pool[ChainOf(b)[n]].ip) = b
       /\ \A n, m \in 1..Len(ChainOf(b)) :
            ChainOf(b)[n] = ChainOf(b)[m] => n = m
  /\ \A i \in Flows :
       \E n \in 1..Len(ChainOf(BucketOf(flow_pool[i].ip))) :
         ChainOf(BucketOf(flow_pool[i].ip))[n] = i
  /\ Cardinality(UNION {{<<b, n>> : n \in 1..Len(ChainOf(b))} : b \in Buckets})
       = pool_index

\* C11 witness: the arena is full and one bucket chains two entries of
\* different keys.
C11_Witness ==
  /\ ArenaFull
  /\ \E b \in Buckets :
       /\ Len(ChainOf(b)) >= 2
       /\ flow_pool[ChainOf(b)[1]].ip # flow_pool[ChainOf(b)[2]].ip


\* C12: after any sequence of creates and lookups, the lookup of a key
\* returns an entry of that key if a flow for the key has been created and
\* null otherwise, and the entry is the same whether the cache probe or the
\* chain walk serves it.
C12_LookupCorrect ==
  \A k \in AllKeys :
    /\ Lookup(k) = ChainFind(flow_pool, buckets[BucketOf(k)], k)
    /\ Lookup(k) # NULL => (Lookup(k) \in Flows /\ flow_pool[Lookup(k)].ip = k)
    /\ Lookup(k) = NULL <=> ~(\E i \in Flows : flow_pool[i].ip = k)

\* C12 witness: the cache probe serves one key while another key of the same
\* cache slot has no flow yet.
C12_Witness ==
  \E k, k2 \in dataset.keys :
    /\ CacheHit(flow_pool, fast_cache, k)
    /\ CacheIdx(k2) = CacheIdx(k)
    /\ Lookup(k2) = NULL


\* the step is the packet that creates the flow of the unseen key ip
CreatesFlowOf(ip) ==
  /\ IsPacketOf(ip)
  /\ Lookup(ip) = NULL
  /\ Len(flow_pool') = Len(flow_pool) + 1

\* C13: when the dispatcher finishes the packet that creates the flow of a
\* previously unseen key, the flow still has its creation state: confidence
\* 35, hits 1, packet_count 1, type Normal, aging strategy Exponential and
\* promotion_score 100.
C13_CreatedFlowKeepsCreationState ==
  [][\A ip \in dataset.keys :
       CreatesFlowOf(ip)
         => /\ flow_pool'[Len(flow_pool')].ip = ip
            /\ flow_pool'[Len(flow_pool')].confidence = 35
            /\ flow_pool'[Len(flow_pool')].hits = 1
            /\ flow_pool'[Len(flow_pool')].packet_count = 1
            /\ flow_pool'[Len(flow_pool')].flow_type = NORMAL_FLOW
            /\ flow_pool'[Len(flow_pool')].aging_strategy = AGING_EXPONENTIAL
            /\ flow_pool'[Len(flow_pool')].promotion_score = 100]_vars


\* the arena entries 1..KnownEntries are the pre-populated known flows
KnownEntries ==
  Min(pool_size,
      Cardinality({j \in 1..Min(Len(dataset.known), LARGE_FLOW_AREA_SIZE) :
                     dataset.known[j] > 0}))

\* the next packet of key ip is the second packet of a flow that the
\* dispatcher has created
SecondPacketDue(ip) ==
  /\ pc = "run"
  /\ true_count[ip] = 1
  /\ Lookup(ip) # NULL
  /\ Lookup(ip) > KnownEntries

\* C14: the second packet of a flow created by the dispatcher finds hits
\* still 1 at selection time, so the hits == 1 rule fires and the packet is
\* dispatched on Accelerated.
C14_SecondPacketOnHitsOneRule ==
  \A ip \in dataset.keys :
    SecondPacketDue(ip)
      => /\ flow_pool[Lookup(ip)].hits = 1
         /\ Dispatch(ip, ACCELERATED_PATH).path = ACCELERATED_PATH


\* every packet processed so far carried key ip, and the dataset has no known
\* keys: the run is a prefix of the single-key input
SingleKeyRun(ip) ==
  /\ pc = "run"
  /\ dataset.known = <<>>
  /\ total_processed > 0
  /\ true_count[ip] = total_processed

SharedCell(k, i) ==
  \E k2 \in AllKeys \ {k} :
    true_count[k2] > 0 /\ SketchPos(k2, i) = SketchPos(k, i)

\* C16: after any sequence of packets the sketch query of a key is at least
\* the number of packets processed with that key, and equals it when in at
\* least one row no other processed key maps to the cell of the key.
C16_SketchBound ==
  \A k \in AllKeys :
    /\ sketch_query_fast(sketch, k) >= true_count[k]
    /\ (\E i \in 1..SKETCH_DEPTH : ~SharedCell(k, i))
         => sketch_query_fast(sketch, k) = true_count[k]

\* C16 witness: a key processed at least twice that shares its cell with
\* another processed key in one row and has it to itself in another.
C16_Witness ==
  \E k \in dataset.keys :
    /\ true_count[k] >= 2
    /\ \E i \in 1..SKETCH_DEPTH : SharedCell(k, i)
    /\ \E i \in 1..SKETCH_DEPTH : ~SharedCell(k, i)


(***************************************************************************)
(* The sketch on its own: sketch_update_fast applied to the sketch that    *)
(* init_fast_sketch returns, any number of times.                          *)
(***************************************************************************)
SketchKeys == {5, 53859, 26160156}

\* init_optimized_table: everything but the position of main, the dataset
\* and the arena
Constructed ==
  /\ now = StartTime
  /\ known_i = 1
  /\ buckets = [b \in Buckets |-> NULL]
  /\ fast_cache = [c \in CacheSlots |-> NULL]
  /\ sketch = [c \in SketchCells |-> 0]
  /\ prediction_cache =
       [s \in PredSlots |-> [ ip |-> 0, prediction |-> 0,
                              suggested_path |-> 0, timestamp |-> 0 ]]
  /\ path_counts = [p \in 0..5 |-> 0]
  /\ total_processed = 0
  /\ burst = [ burst_history |-> [j \in 0..(BURST_WINDOW_SIZE - 1) |-> 0],
               burst_index |-> 0, last_packet_count |-> 0, last_check |-> 0 ]
  /\ aging = [ last_aging_cycle |-> StartTime, flows_demoted |-> 0,
               flows_promoted |-> 0 ]
  /\ ultra_fast_promotions = 0
  /\ ticks = 0
  /\ true_count = [k \in AllKeys |-> 0]
  /\ pq = [ entries |-> <<>>, drop_count |-> 0, lost |-> <<>> ]
  /\ visited = {}
  /\ known_flows = <<>>
  /\ known_count = 0
  /\ capacity = 0
  /\ packet_i = 0

SketchInit ==
  /\ pc = "sketch"
  /\ dataset = [ known |-> <<>>, keys |-> SketchKeys ]
  /\ flow_pool = <<>>
  /\ decisions = <<>>
  /\ Constructed

SketchUpdate(ip) ==
  /\ pc = "sketch"
  /\ sketch' = sketch_update_fast(sketch, ip)
  /\ UNCHANGED <<now, pc, dataset, known_i, flow_pool, buckets, fast_cache,
                 prediction_cache, path_counts, total_processed, burst, aging,
                 ultra_fast_promotions, ticks, true_count, decisions, pq, visited,
               known_flows, known_count, capacity, packet_i>>

SketchNext == \E ip \in SketchKeys : SketchUpdate(ip)

SketchSpec == SketchInit /\ [][SketchNext]_vars

\* C17: sketch counters saturate: an update that would increment a cell
\* holding the maximum counter value leaves the cell at the maximum, so no
\* cell value ever decreases.
C17_SketchCellsSaturate ==
  [][\A c \in SketchCells :
       /\ sketch'[c] >= sketch[c]
       /\ sketch[c] = SKETCH_MOD - 1 => sketch'[c] = SKETCH_MOD - 1]_vars


\* the path process_packet_optimized selects for a packet of ip when the
\* clock it reads shows t (a packet that creates its flow is counted on the
\* accelerated path)
PathOfFound(ip, found, t) ==
  IF found.flow = NULL THEN ACCELERATED_PATH
  ELSE select_path_enhanced(ip,
         maybe_promote_burst(found.pool[found.flow], burst,
                             total_processed, t).flow,
         prediction_cache, t).path

PathAt(ip, t) ==
  PathOfFound(ip, find_flow_fast(flow_pool, buckets, fast_cache, ip), t)

\* C18 as claimed: two runs over the same dataset end with identical per-path
\* counters and flow counts whatever clock readings they observe.  Two runs
\* that agree up to a state and then read different clocks for the next
\* packet must therefore count that packet on the same path: the path of
\* the next packet of any key is the same whether the clock has stood still
\* or has advanced.
C18_ClockDoesNotSteerDispatch ==
  pc = "run"
    => \A ip \in dataset.keys : \A d \in TickSteps :
         PathAt(ip, now + d) = PathAt(ip, now)

\* the keys of the pre-populated known flows
KnownKeys ==
  {dataset.known[j] : j \in 1..Min(Len(dataset.known), LARGE_FLOW_AREA_SIZE)}

\* C18 amended: the number of flows created is the same whatever clock
\* readings a run observes: it is the number of known flows plus the number
\* of distinct packet keys without a known flow, cut at the arena capacity.
C18_FlowCountClockFree ==
  pc \in {"run", "done"}
    => pool_index =
         Min(pool_size,
             KnownEntries
               + Cardinality({k \in AllKeys :
                                true_count[k] > 0 /\ k \notin KnownKeys}))

\* C18 witness: a flow created by a packet that arrived after the clock had
\* advanced.
C18_Witness ==
  /\ ticks > 0
  /\ \E i \in Flows :
       /\ i > KnownEntries
       /\ flow_pool[i].packet_count = 2
       /\ flow_pool[i].last_seen > StartTime


(***************************************************************************)
(* The pattern recorder on its own: update_flow_pattern applied to one     *)
(* flow, a new one or a pre-populated known one, with any sequence of      *)
(* path decisions; decisions records the sequence.                         *)
(***************************************************************************)
\* the paths select_path_enhanced returns for a flow that exists
PatternPaths == {ULTRA_FAST_PATH, FAST_PATH, ACCELERATED_PATH, ADAPTIVE_PATH}

PatternInit ==
  /\ pc = "pattern"
  /\ dataset = [ known |-> <<>>, keys |-> {5} ]
  /\ flow_pool \in { <<NewFlow(5, StartTime, NULL)>>,
                     <<KnownFlow(NewFlow(5, StartTime, NULL))>> }
  /\ decisions = <<>>
  /\ Constructed

PatternStep(path) ==
  /\ pc = "pattern"
  /\ Len(decisions) < MaxDecisions
  /\ flow_pool' = [flow_pool EXCEPT ![1] = update_flow_pattern(@, path)]
  /\ decisions' = Append(decisions, path)
  /\ UNCHANGED <<now, pc, dataset, known_i, buckets, fast_cache, sketch,
                 prediction_cache, path_counts, total_processed, burst, aging,
                 ultra_fast_promotions, ticks, true_count, pq, visited,
               known_flows, known_count, capacity, packet_i>>

PatternNext == \E path \in PatternPaths : PatternStep(path)

PatternSpec == PatternInit /\ [][PatternNext]_vars

\* occurrences of the most frequent path among the last `held` decisions
ModalCount(held) ==
  LET n == Len(decisions)
      occ == {Cardinality({m \in (n - held + 1)..n : decisions[m] = v})
                : v \in PatternPaths}
  IN  CHOOSE c \in occ : \A d \in occ : d <= c

\* C19: after n >= 8 recorded decisions the ring holds exactly the last 8
\* decisions (decision m in slot (m - 1) mod 8), and from the fourth decision
\* on path_consistency is the number of occurrences of the most frequent
\* path among the decisions held, over the number of decisions held, a value
\* between 0 and 1.
C19_PatternRing ==
  pc = "pattern"
    => LET n == Len(decisions)
           f == flow_pool[1]
       IN  /\ n >= ML_HISTORY_SIZE
                => \A m \in (n - ML_HISTORY_SIZE + 1)..n :
                     f.path_history[(m - 1) % ML_HISTORY_SIZE] = decisions[m]
           /\ n >= 4
                => /\ f.path_consistency[2] = Min(n, ML_HISTORY_SIZE)
                   /\ f.path_consistency[1]
                        = ModalCount(Min(n, ML_HISTORY_SIZE))
                   /\ 0 <= f.path_consistency[1]
                   /\ f.path_consistency[1] <= f.path_consistency[2]

\* C19 witness: nine mixed decisions recorded, the first of them overwritten
\* by a different one, and the modal path not the only one in the ring.
C19_Witness ==
  /\ pc = "pattern"
  /\ Len(decisions) = ML_HISTORY_SIZE + 1
  /\ decisions[1] # decisions[ML_HISTORY_SIZE + 1]
  /\ flow_pool[1].path_history[0] = decisions[ML_HISTORY_SIZE + 1]
  /\ flow_pool[1].path_consistency[1] < flow_pool[1].path_consistency[2]


\* select_path_enhanced consults the prediction cache for this packet: the
\* flow exists and, after maybe_promote_burst, has more than two hits
ConsultsCacheFound(found) ==
  /\ found.flow # NULL
  /\ maybe_promote_burst(found.pool[found.flow], burst,
                         total_processed, now).flow.hits > 2

ConsultsCache(ip) ==
  ConsultsCacheFound(find_flow_fast(flow_pool, buckets, fast_cache, ip))

\* C20: a prediction-cache entry is used for key k exactly when its stored
\* key is k and its age is at most 30 s (an entry exactly 30 s old is still
\* used).  An entry that is used is left as it is; one that is not used is
\* overwritten with the fresh prediction and the current time.
C20_CacheValidUpTo30 ==
  [][\A ip \in AllKeys :
       (IsPacketOf(ip) /\ ConsultsCache(ip))
         => ( prediction_cache'[PredIdx(ip)] = prediction_cache[PredIdx(ip)]
              <=> /\ prediction_cache[PredIdx(ip)].ip = ip
                  /\ now - prediction_cache[PredIdx(ip)].timestamp <= 30 )]_vars


\* C22: after an aging cycle that runs, every live flow that has received no
\* packet for more than 1000 s is of type Dying, whatever the number of
\* flows in the arena.
C22_IdleFlowDyingAfterAging ==
  [][aging'.last_aging_cycle # aging.last_aging_cycle
       => \A i \in 1..Len(flow_pool') :
            (flow_pool'[i].ip # 0 /\ now' - flow_pool'[i].last_seen > 1000)
              => flow_pool'[i].flow_type = DYING_FLOW]_vars


\* C23: key 0 denotes an unused slot: every allocated arena entry has a
\* non-zero key, so the flow that lookup returns for a key is one the aging
\* cycle and the lifecycle pass treat as live (they skip entries of key 0).
C23_AllocatedKeysNonZero ==
  /\ \A i \in 1..Len(flow_pool) : flow_pool[i].ip # 0
  /\ \A ip \in AllKeys :
       \A found \in {find_flow_fast(flow_pool, buckets, fast_cache, ip)} :
         found.flow # NULL => found.pool[found.flow].ip # 0


(***************************************************************************)
(* The driver from the start of main: the dataset file is absent or a      *)
(* sequence of whitespace-separated tokens, each a decimal number or text  *)
(* that %d does not convert.  While pc = "read" the variable dataset holds *)
(* the file; read_dataset_fast fills in the known keys and the packets.    *)
(***************************************************************************)
Tokens == {[int |-> TRUE, val |-> n] : n \in FileNumbers}
            \cup {[int |-> FALSE, val |-> 0]}
Files ==
  {[exists |-> FALSE, tokens |-> <<>>]}
    \cup {[exists |-> TRUE, tokens |-> s] :
            s \in UNION {[1..n -> Tokens] : n \in 0..MaxFileLen}}

\* the loops of fscanf(f, "%d", ...) of read_dataset_fast: n numbers after
\* the first `from` tokens, or failure at the first token that is missing
\* or does not convert
ReadInts(tokens, from, n) ==
  IF \E i \in 1..n : from + i > Len(tokens) \/ ~tokens[from + i].int
  THEN [ ok |-> FALSE, ints |-> <<>> ]
  ELSE [ ok |-> TRUE, ints |-> [i \in 1..n |-> tokens[from + i].val] ]

\* faulty variant: a file that ends before the last packet delivers the
\* packets read so far
ReadBody_Partial(tokens, kn, np, malloc_null) ==
  IF ~ReadInts(tokens, 3, kn).ok THEN [ ok |-> FALSE ]
  ELSE [ ok |-> TRUE,
         known |-> ReadInts(tokens, 3, kn).ints,
         packets |-> [i \in 1..Min(np, Len(tokens) - 3 - kn)
                        |-> tokens[3 + kn + i].val] ]

\* read_dataset_fast after the header: the known keys, malloc, the packets.
\* malloc_null: malloc(0) returned a null pointer (implementation-defined)
ReadBody(tokens, kn, np, malloc_null) ==
  IF ~ReadInts(tokens, 3, kn).ok THEN [ ok |-> FALSE ]
  ELSE IF np = 0 /\ malloc_null THEN [ ok |-> FALSE ]
  ELSE IF ~ReadInts(tokens, 3 + kn, np).ok THEN [ ok |-> FALSE ]
  ELSE [ ok |-> TRUE,
         known |-> ReadInts(tokens, 3, kn).ints,
         packets |-> ReadInts(tokens, 3 + kn, np).ints ]

\* int *read_dataset_fast(const char *fn, int *known, int *np, int *ir)
read_dataset_fast(file, malloc_null) ==
  IF ~file.exists THEN [ ok |-> FALSE ]
  ELSE IF ~ReadInts(file.tokens, 0, 3).ok THEN [ ok |-> FALSE ]
  ELSE ReadBody(file.tokens, file.tokens[1].val, file.tokens[2].val,
                malloc_null)

ReaderInit ==
  /\ pc = "read"
  /\ dataset \in {[file |-> f, known |-> <<>>, keys |-> {}] : f \in Files}
  /\ flow_pool = <<>>
  /\ decisions = <<>>
  /\ Constructed

\* main from init_optimized_table to the test of the pointer returned by
\* read_dataset_fast: return 1 when it is null
ReadDataset(malloc_null) ==
  /\ pc = "read"
  /\ \E r \in {read_dataset_fast(dataset.file, malloc_null)} :
       IF r.ok
       THEN /\ pc' = "prepop"
            /\ dataset' = [dataset EXCEPT !.known = r.known,
                                          !.keys = SeqToSet(r.packets)]
       ELSE /\ pc' = "exit1"
            /\ UNCHANGED dataset
  /\ UNCHANGED <<now, known_i, flow_pool, buckets, fast_cache, sketch,
                 prediction_cache, path_counts, total_processed, burst, aging,
                 ultra_fast_promotions, ticks, true_count, decisions, pq, visited,
               known_flows, known_count, capacity, packet_i>>

LoadDataset == \E malloc_null \in BOOLEAN : ReadDataset(malloc_null)

ReaderNext ==
  \/ LoadDataset
  \/ Prepopulate
  \/ StartProcessing
  \/ ClockTick
  \/ ProcessPacket
  \/ Finish

ReaderSpec == ReaderInit /\ [][ReaderNext]_vars

\* the header of the file is three numbers
HeaderParses(file) ==
  /\ Len(file.tokens) >= 3
  /\ \A j \in 1..3 : file.tokens[j].int

\* the file cannot be opened, its header does not parse, or it ends before
\* known_count keys and num_packets packets
BadFile(file) ==
  \/ ~file.exists
  \/ ~HeaderParses(file)
  \/ Len(file.tokens) < 3 + file.tokens[1].val + file.tokens[2].val

\* C24: if the dataset file cannot be opened, its header does not parse as
\* three integers, or it ends before known_count keys and num_packets
\* packets have been read, the driver exits with code 1 and has processed no
\* packet and created no flow.
C24_BadFileExits ==
  (pc # "read" /\ "file" \in DOMAIN dataset /\ BadFile(dataset.file))
    => /\ pc = "exit1"
       /\ total_processed = 0
       /\ flow_pool = <<>>
       /\ \A p \in 0..5 : path_counts[p] = 0

\* C24 witness: the driver has exited on a file whose header parses and
\* whose known keys were all read, but which ends before the packets.
C24_Witness ==
  /\ pc = "exit1"
  /\ dataset.file.exists
  /\ HeaderParses(dataset.file)
  /\ dataset.file.tokens[1].val >= 1
  /\ dataset.file.tokens[2].val >= 1
  /\ Len(dataset.file.tokens) = 3 + dataset.file.tokens[1].val
  /\ \A j \in 1..Len(dataset.file.tokens) : dataset.file.tokens[j].int


(***************************************************************************)
(* The priority queue.  Its code is not among the sources; it is modelled  *)
(* from the specification's description: a bounded buffer of entries       *)
(* (key, priority, timestamp), priority 0..3 with 0 the most urgent.       *)
(* enqueue on a full queue drops the packet with a probability derived     *)
(* from the load and otherwise overwrites the queued entry with the        *)
(* highest priority value; otherwise it appends at the tail.               *)
(* dequeue_highest_priority removes an entry of least priority value and   *)
(* compacts the gap.  pq.lost is history: the entry last overwritten.      *)
(***************************************************************************)
Priorities == 0..3
QueueKeys == {0, 5}

\* p_drop = max(0, (load - 0.7) / 0.3) with load = size / capacity, in
\* thousandths
DropProbability(size) ==
  Max(0, ((((1000 * size) \div QUEUE_CAPACITY) - 700) * 10) \div 3)

\* faulty variant: the entry overwritten is one of the most urgent
Victims_MostUrgent(entries) ==
  {i \in 1..Len(entries) :
     \A j \in 1..Len(entries) : entries[j].priority >= entries[i].priority}

\* the queued entries with the highest priority value (lowest urgency)
Victims(entries) ==
  {i \in 1..Len(entries) :
     \A j \in 1..Len(entries) : entries[j].priority <= entries[i].priority}

\* the queued entries with the least priority value (most urgent)
MostUrgent(entries) ==
  {i \in 1..Len(entries) :
     \A j \in 1..Len(entries) : entries[j].priority >= entries[i].priority}

\* enqueue(key, priority) on a full queue; survives is the outcome of the
\* random draw against p_drop, victim the entry chosen among Victims
enqueue_full(q, e, survives, victim) ==
  IF DropProbability(Len(q.entries)) > 0 /\ ~survives
  THEN [q EXCEPT !.drop_count = @ + 1]
  ELSE [q EXCEPT !.entries[victim] = e, !.lost = <<q.entries[victim]>>]

\* enqueue(key, priority)
enqueue(q, key, priority, t, survives, victim) ==
  IF Len(q.entries) >= QUEUE_CAPACITY
  THEN enqueue_full(q, [key |-> key, priority |-> priority, timestamp |-> t],
                    survives, victim)
  ELSE [q EXCEPT !.entries =
          Append(@, [key |-> key, priority |-> priority, timestamp |-> t])]

\* dequeue_highest_priority(): the entry at index i is removed and the gap
\* compacted
dequeue_highest_priority(q, i) ==
  [q EXCEPT !.entries =
     [j \in 1..(Len(q.entries) - 1) |->
        IF j < i THEN q.entries[j] ELSE q.entries[j + 1]]]

QueueInit ==
  /\ pc = "queue"
  /\ dataset = [ known |-> <<>>, keys |-> QueueKeys ]
  /\ flow_pool = <<>>
  /\ decisions = <<>>
  /\ Constructed

Enqueue(key, priority, survives) ==
  /\ pc = "queue"
  /\ pq.drop_count < MaxDrops
  /\ \E victim \in (IF Len(pq.entries) >= QUEUE_CAPACITY
                    THEN Victims(pq.entries) ELSE {0}) :
       pq' = enqueue(pq, key, priority, now, survives, victim)
  /\ UNCHANGED <<now, pc, dataset, known_i, flow_pool, buckets, fast_cache,
                 sketch, prediction_cache, path_counts, total_processed,
                 burst, aging, ultra_fast_promotions, ticks, true_count,
                 decisions, visited,
               known_flows, known_count, capacity, packet_i>>

Dequeue ==
  /\ pc = "queue"
  /\ pq.entries # <<>>
  /\ \E i \in MostUrgent(pq.entries) : pq' = dequeue_highest_priority(pq, i)
  /\ UNCHANGED <<now, pc, dataset, known_i, flow_pool, buckets, fast_cache,
                 sketch, prediction_cache, path_counts, total_processed,
                 burst, aging, ultra_fast_promotions, ticks, true_count,
                 decisions, visited,
               known_flows, known_count, capacity, packet_i>>

Produce ==
  \E key \in QueueKeys : \E priority \in Priorities :
    \E survives \in BOOLEAN : Enqueue(key, priority, survives)

QueueNext == Produce \/ Dequeue

QueueSpec == QueueInit /\ [][QueueNext]_vars

\* an enqueue on a full queue whose packet was not dropped
SurvivesOnFull ==
  /\ pc = "queue"
  /\ Len(pq.entries) = QUEUE_CAPACITY
  /\ Len(pq'.entries) = QUEUE_CAPACITY
  /\ pq'.drop_count = pq.drop_count
  /\ pq' # pq

\* C25: when enqueue is called on a full queue and the incoming packet
\* survives the drop, the queue size is unchanged and exactly one queued
\* entry is lost, one with the highest priority value; its place holds the
\* incoming packet, and every other entry is kept.
C25_OverwriteLosesLeastUrgent ==
  [][SurvivesOnFull
       => \E i \in 1..QUEUE_CAPACITY :
            /\ \A j \in 1..QUEUE_CAPACITY :
                 pq.entries[j].priority <= pq.entries[i].priority
            /\ pq'.lost = <<pq.entries[i]>>
            /\ pq'.entries[i].key \in QueueKeys
            /\ pq'.entries[i].timestamp = now
            /\ \A j \in 1..QUEUE_CAPACITY :
                 j # i => pq'.entries[j] = pq.entries[j]]_vars

\* C25 witness: a full queue holding entries of different priorities in
\* which an urgent incoming packet has overwritten a less urgent entry.
C25_Witness ==
  /\ pc = "queue"
  /\ Len(pq.entries) = QUEUE_CAPACITY
  /\ pq.lost # <<>>
  /\ \E i, j \in 1..QUEUE_CAPACITY :
       /\ pq.entries[i].priority < pq.lost[1].priority
       /\ pq.entries[j].priority > pq.entries[i].priority


\* C26: after a decision for UltraFast or Fast the flow's
\* consecutive_fast_paths is one more than before; after a decision for any
\* more expensive path it is 0.
C26_FastRunCounted ==
  [][(pc = "pattern" /\ Len(decisions') = Len(decisions) + 1)
       => flow_pool'[1].consecutive_fast_paths =
            IF decisions'[Len(decisions')] \in {ULTRA_FAST_PATH, FAST_PATH}
            THEN flow_pool[1].consecutive_fast_paths + 1
            ELSE 0]_vars


\* pairs of consecutive decisions, in arrival order, among the last
\* ML_HISTORY_SIZE decisions that differ
ArrivalTransitions ==
  Cardinality({m \in (Len(decisions) - ML_HISTORY_SIZE + 2)..Len(decisions) :
                 decisions[m] # decisions[m - 1]})

\* C27: once the ring is filled, burst_score is the number of pairs of
\* consecutive decisions, in arrival order, among the last 8 decisions that
\* differ, over 7, wherever the write index points.
C27_BurstScoreArrivalOrder ==
  (pc = "pattern" /\ Len(decisions) >= ML_HISTORY_SIZE)
    => flow_pool[1].burst_score[1] * (ML_HISTORY_SIZE - 1)
         = ArrivalTransitions * flow_pool[1].burst_score[2]


\* a burst was declared for the current second: detect_burst_enhanced has
\* run in this second and the count it recorded exceeded twice the rolling
\* mean and BURST_THRESHOLD
LastRecorded ==
  burst.burst_history[(burst.burst_index + BURST_WINDOW_SIZE - 1)
                        % BURST_WINDOW_SIZE]
BurstActive ==
  /\ burst.last_check = now
  /\ LastRecorded * BURST_WINDOW_SIZE
       > SumTo(burst.burst_history, BURST_WINDOW_SIZE - 1) * 2
  /\ LastRecorded > BURST_THRESHOLD

\* the flow found for a packet meets a promotion condition of
\* maybe_promote_burst
PromotableFound(found) ==
  /\ found.flow # NULL
  /\ PromoteOnBurst(found.pool[found.flow], now).flow
       # found.pool[found.flow]

Promotable(ip) ==
  PromotableFound(find_flow_fast(flow_pool, buckets, fast_cache, ip))

\* C28: while a burst is active for the current second, every packet
\* processed in that second whose flow is already tracked and meets a
\* promotion condition is promoted (its confidence is at least
\* CONFIDENCE_FAST_TRACK afterwards), not only the first one.
C28_EveryPacketInBurstPromoted ==
  [][\A ip \in AllKeys :
       (BurstActive /\ IsPacketOf(ip) /\ Promotable(ip))
         => flow_pool'[Lookup(ip)].confidence >= CONFIDENCE_FAST_TRACK]_vars


(***************************************************************************)
(* The aging cycle on its own: enhanced_aging_cycle applied again and      *)
(* again to an arena with a fixed set of flows, each time AGING_INTERVAL   *)
(* packets and 30 s after the time before; visited records the indices the *)
(* cycles have visited.                                                    *)
(***************************************************************************)
AgingKeys == <<11, 12, 13, 5, 14, 15, 16, 17, 18, 19, 1074>>

\* the arena after create_flow_fast for the first n keys, each flow as the
\* pre-population of main leaves a known flow, or as process_packet_optimized
\* leaves a flow after the packet that created it
RECURSIVE Populate(_, _)
Populate(n, known) ==
  IF n = 0 THEN [ pool |-> <<>>, heads |-> [b \in Buckets |-> NULL] ]
  ELSE \* one create_flow_fast on top of the arena of n - 1 flows
       CHOOSE r \in
         { [ pool |-> [cr.pool EXCEPT ![cr.flow] =
                         IF known THEN KnownFlow(@)
                         ELSE UpdateStats(
                                update_flow_pattern(@, ACCELERATED_PATH),
                                ACCELERATED_PATH, StartTime)],
             heads |-> cr.heads ] :
             cr \in { create_flow_fast(prev.pool, prev.heads, AgingKeys[n],
                                       StartTime) :
                      prev \in {Populate(n - 1, known)} } } : TRUE

AgingInit ==
  /\ pc = "aging"
  /\ now = StartTime
  /\ dataset = [ known |-> <<>>, keys |-> {} ]
  /\ known_i = 1
  /\ \E n \in 1..Min(Len(AgingKeys), pool_size) : \E known \in BOOLEAN :
       /\ flow_pool = Populate(n, known).pool
       /\ buckets = Populate(n, known).heads
  /\ fast_cache = [c \in CacheSlots |-> NULL]
  /\ sketch = [c \in SketchCells |-> 0]
  /\ prediction_cache =
       [s \in PredSlots |-> [ ip |-> 0, prediction |-> 0,
                              suggested_path |-> 0, timestamp |-> 0 ]]
  /\ path_counts = [p \in 0..5 |-> 0]
  /\ total_processed = 0
  /\ burst = [ burst_history |-> [j \in 0..(BURST_WINDOW_SIZE - 1) |-> 0],
               burst_index |-> 0, last_packet_count |-> 0, last_check |-> 0 ]
  /\ aging = [ last_aging_cycle |-> StartTime, flows_demoted |-> 0,
               flows_promoted |-> 0 ]
  /\ ultra_fast_promotions = 0
  /\ ticks = 0
  /\ true_count = [k \in AllKeys |-> 0]
  /\ decisions = <<>>
  /\ pq = [ entries |-> <<>>, drop_count |-> 0, lost |-> <<>> ]
  /\ visited = {}
  /\ known_flows = <<>>
  /\ known_count = 0
  /\ capacity = 0
  /\ packet_i = 0

\* AGING_INTERVAL packets and 30 s later: process_packet_optimized,
\* "Periodic maintenance", calls enhanced_aging_cycle
AgingRound(ub) ==
  /\ pc = "aging"
  /\ total_processed < MaxCycles * AGING_INTERVAL
  /\ now' = now + 30
  /\ total_processed' = total_processed + AGING_INTERVAL
  /\ \E a \in {enhanced_aging_cycle(flow_pool, aging,
                                    total_processed + AGING_INTERVAL,
                                    now + 30, ub)} :
       /\ flow_pool' = a.pool
       /\ aging' = a.aging
  /\ visited' = visited \cup AgedIndices(Len(flow_pool), aging,
                                         total_processed + AGING_INTERVAL,
                                         now + 30)
  /\ UNCHANGED <<pc, dataset, known_i, buckets, fast_cache, sketch,
                 prediction_cache, path_counts, burst,
                 ultra_fast_promotions, ticks, true_count, decisions, pq,
               known_flows, known_count, capacity, packet_i>>

AgingNext == \E ub \in UBConversions : AgingRound(ub)

AgingSpec == AgingInit /\ [][AgingNext]_vars

\* C29: the aging slice rotates over the whole arena: with a fixed set of
\* flows and aging cycles that keep occurring, every allocated flow is
\* eventually visited, for every occupancy >= 1.  The start index of a cycle
\* depends only on the processed count modulo the occupancy, so the cycles
\* repeat after as many cycles as there are flows: a flow that is visited at
\* all is visited within that many cycles.
C29_AgingVisitsEveryFlow ==
  (pc = "aging" /\ total_processed >= AGING_INTERVAL * Len(flow_pool))
    => visited = 1..Len(flow_pool)


\* C30: whenever an aging cycle changes a flow's type to Dying, the flow's
\* previous_type afterwards holds the type it had immediately before the
\* change, and flows_demoted has increased by one for each such flow; this
\* holds for every aging strategy.
C30_DemotionRecorded ==
  [][pc = "aging"
       => /\ \A i \in 1..Len(flow_pool) :
               (flow_pool[i].flow_type # DYING_FLOW
                  /\ flow_pool'[i].flow_type = DYING_FLOW)
                 => flow_pool'[i].previous_type = flow_pool[i].flow_type
          /\ aging'.flows_demoted - aging.flows_demoted
               = Cardinality({i \in 1..Len(flow_pool) :
                                /\ flow_pool[i].flow_type # DYING_FLOW
                                /\ flow_pool'[i].flow_type = DYING_FLOW})]_vars



\* the aging strategies
AgingStrategies ==
  {AGING_LINEAR, AGING_EXPONENTIAL, AGING_ADAPTIVE, AGING_AGGRESSIVE}

\* C31: one aging step of any strategy applied to a flow with confidence in
\* 0..100 and idle time >= 0 yields a confidence in 0..100 that is at most
\* the prior confidence, also an Adaptive step whose idle time makes the
\* decay exceed 1.
C31_AgingStepLowersWithinRange ==
  \A i \in Flows :
    (flow_pool[i].confidence \in 0..100 /\ now - flow_pool[i].last_seen >= 0)
      => \A strategy \in AgingStrategies : \A ub \in UBConversions :
           apply_aging_strategy(flow_pool[i], strategy, now, ub).confidence
             \in 0..flow_pool[i].confidence



(***************************************************************************)
(* The lifecycle pass on its own: manage_flow_lifecycle applied to an      *)
(* arena of one flow whose type, previous type, confidence and promotion   *)
(* score range over the values a FlowEntry can hold, the flow idle for as  *)
(* long as the clock has advanced.  The body of the loop is a function of  *)
(* the entry alone; the Promoted entries are inputs the dispatcher as      *)
(* built does not produce.                                                 *)
(***************************************************************************)
FlowTypes ==
  {NORMAL_FLOW, LARGE_FLOW, BURSTY_FLOW, MICRO_FLOW, DYING_FLOW,
   PROMOTED_FLOW, SUSPECTED_FLOW}
LifecycleConfidences == {0, 9, 10, 15, 16, 20, 24, 25, 26, 60, 85, 100}
LifecycleScores == {100, 800}

LifecycleInit ==
  /\ pc = "lifecycle"
  /\ dataset = [ known |-> <<>>, keys |-> {} ]
  /\ flow_pool \in
       { <<[KnownFlow(NewFlow(5, StartTime, NULL)) EXCEPT
              !.flow_type = ty, !.previous_type = prev,
              !.confidence = c, !.promotion_score = s]>> :
           ty \in FlowTypes, prev \in {NORMAL_FLOW, LARGE_FLOW},
           c \in LifecycleConfidences, s \in LifecycleScores }
  /\ decisions = <<>>
  /\ Constructed

\* a call of manage_flow_lifecycle
LifecyclePass ==
  /\ pc = "lifecycle"
  /\ total_processed < MaxPasses
  /\ \E l \in {manage_flow_lifecycle(flow_pool, aging, now)} :
       /\ flow_pool' = l.pool
       /\ aging' = l.aging
  /\ total_processed' = total_processed + 1
  /\ UNCHANGED <<now, pc, dataset, known_i, buckets, fast_cache, sketch,
                 prediction_cache, path_counts, burst,
                 ultra_fast_promotions, ticks, true_count, decisions, pq,
                 visited,
               known_flows, known_count, capacity, packet_i>>

\* the clock advances while the flow is idle
LifecycleTick(d) ==
  /\ pc = "lifecycle"
  /\ ticks < MaxTicks
  /\ now' = now + d
  /\ ticks' = ticks + 1
  /\ UNCHANGED <<pc, dataset, known_i, flow_pool, buckets, fast_cache, sketch,
                 prediction_cache, path_counts, total_processed, burst, aging,
                 ultra_fast_promotions, true_count, decisions, pq, visited,
               known_flows, known_count, capacity, packet_i>>

LifecycleIdle == \E d \in TickSteps : LifecycleTick(d)

LifecycleNext == LifecyclePass \/ LifecycleIdle

LifecycleSpec == LifecycleInit /\ [][LifecycleNext]_vars

\* the step is a lifecycle pass that demotes the flow
IsDemotion ==
  /\ pc = "lifecycle"
  /\ flow_pool[1].flow_type = PROMOTED_FLOW
  /\ aging'.flows_demoted = aging.flows_demoted + 1

ScoreValues == {0, 10, 50, 55, 100, 800, 940, 945, 950, 990, 1000}

ScoreInit ==
  /\ pc = "score"
  /\ dataset = [ known |-> <<>>, keys |-> {5} ]
  /\ flow_pool \in
       { <<[f EXCEPT !.promotion_score = s]>> :
           f \in { KnownFlow(NewFlow(5, StartTime, NULL)),
                   UpdateStats(update_flow_pattern(NewFlow(5, StartTime, NULL),
                                                   ACCELERATED_PATH),
                               ACCELERATED_PATH, StartTime) },
           s \in ScoreValues }
  /\ decisions = <<>>
  /\ Constructed

\* process_packet_optimized for a flow that exists, from update_flow_pattern on
ScorePacket(path) ==
  /\ pc = "score"
  /\ Len(decisions) < MaxScored
  /\ flow_pool' = [flow_pool EXCEPT ![1] =
                     UpdateStats(update_flow_pattern(@, path), path, now)]
  /\ decisions' = Append(decisions, path)
  /\ UNCHANGED <<now, pc, dataset, known_i, buckets, fast_cache, sketch,
                 prediction_cache, path_counts, total_processed, burst, aging,
                 ultra_fast_promotions, ticks, true_count, pq, visited,
               known_flows, known_count, capacity, packet_i>>

ScoreNext == \E path \in PatternPaths : ScorePacket(path)

ScoreSpec == ScoreInit /\ [][ScoreNext]_vars

\* the promotion score the claim gives after a packet on this path; the slow
\* class is taken as the code takes it (every path from SLOW_PATH on)
ClaimedScore(old, path) ==
  IF path \in {ULTRA_FAST_PATH, FAST_PATH} THEN Min(old + 10, 1000)
  ELSE IF path >= SLOW_PATH THEN Max(old - 5, 0)
  ELSE old

\* C34: each processed packet changes its flow's promotion_score by +10 when
\* the path is UltraFast or Fast, by -5 when it is in the slow class and by 0
\* otherwise, clamped to 0..1000: the new value is min(old + 10, 1000),
\* max(old - 5, 0) or old, so no packet moves the score by more than 10.
C34_PromotionScoreStep ==
  [][(pc = "score" /\ Len(decisions') = Len(decisions) + 1)
       => /\ flow_pool'[1].promotion_score
               = ClaimedScore(flow_pool[1].promotion_score,
                              decisions'[Len(decisions')])
          /\ flow_pool'[1].promotion_score - flow_pool[1].promotion_score <= 10
          /\ flow_pool[1].promotion_score - flow_pool'[1].promotion_score <= 10]_vars



\* C35: after pre-population from any list of known keys, also one with
\* repeated keys, and any packet sequence, no two allocated arena entries
\* have the same key, so no entry is shadowed and unreachable by lookup.
C35_KeysUnique ==
  /\ \A i, j \in Flows : flow_pool[i].ip = flow_pool[j].ip => i = j
  /\ \A i \in Flows : Lookup(flow_pool[i].ip) = i



(***************************************************************************)
(* What the program can make of one flow.  A flow comes to exist as a      *)
(* known flow of the pre-population or by the packet that creates it; from *)
(* then on only three operations write it: a packet of its key (burst      *)
(* promotion or none, the pattern update and the post-update, on whichever *)
(* path was selected), a visit of the aging cycle and a visit of the       *)
(* lifecycle pass, each at some reading of the clock.  FlowFutures admits  *)
(* every path for every packet and the clock readings in any order, so it  *)
(* holds every flow the program reaches within that many operations.       *)
(***************************************************************************)
FlowOrigins ==
  {KnownFlow(NewFlow(5, StartTime, NULL))}
    \cup {UpdateStats(update_flow_pattern(NewFlow(5, StartTime, NULL),
                                          ACCELERATED_PATH),
                      ubpath, StartTime) : ubpath \in UBPaths}

FlowTimes == {StartTime} \cup {StartTime + d : d \in TickSteps}

\* the flows one operation makes of flow f when the clock shows t
FlowOps(f, t) ==
  {UpdateStats(update_flow_pattern(g, path), path, t) :
     g \in {f, PromoteOnBurst(f, t).flow}, path \in PatternPaths}
    \cup {AgeFlow(f, t, ub).flow : ub \in UBConversions}
    \cup {LifecycleFlow(f, t).flow}

\* the flows at most n operations make of the flows in F
RECURSIVE FlowFutures(_, _)
FlowFutures(F, n) ==
  IF n = 0 THEN F
  ELSE FlowFutures(F \cup UNION {FlowOps(f, t) : f \in F, t \in FlowTimes},
                   n - 1)

\* C36: the lifecycle promotion rule can fire: some sequence of packets,
\* clock ticks and maintenance passes reaches a state, observed by a
\* lifecycle pass, in which a flow has type Normal and hits > 8.  Stated from
\* the start of main for sequences of at most MaxFlowOps operations on a
\* flow; the known flows have hits 12 from the start.
C36_PromotionRuleCanFire ==
  (pc = "prepop" /\ known_i = 1)
    => \E f \in FlowFutures(FlowOrigins, MaxFlowOps) :
         f.flow_type = NORMAL_FLOW /\ f.hits > 8



\* C37: the Slow and DeepAnalysis path counters are 0 in every reachable
\* state: the dispatcher selects a path only for packets that have a flow
\* entry, and path selection for a flow that exists returns only UltraFast,
\* Fast, Accelerated or Adaptive.
C37_SlowPathsNeverCounted ==
  /\ path_counts[SLOW_PATH] = 0
  /\ path_counts[DEEP_ANALYSIS_PATH] = 0
  /\ pc = "run"
       => \A ip \in dataset.keys :
            Lookup(ip) # NULL
              => Dispatch(ip, ACCELERATED_PATH).path \in PatternPaths

\* C37 witness: the arena is full, a packet of a key without flow entry has
\* been processed (the packet the sketch alone would put on Slow), and
\* packets have been counted on a path chosen by the main rule and on a
\* path chosen for a flow with a single hit or just created.
C37_Witness ==
  /\ ArenaFull
  /\ \E k \in dataset.keys : true_count[k] > 0 /\ Lookup(k) = NULL
  /\ path_counts[ADAPTIVE_PATH] + path_counts[FAST_PATH] > 0
  /\ path_counts[ACCELERATED_PATH] > 0



\* the clock readings at which a flow of the current state can be scored
ScoringTimes == {now} \cup {now + d : d \in TickSteps}

\* C38: with the initial model (bias 0.2, eight positive weights summing to
\* 1.0, features clamped to [0,1]) the pre-sigmoid score of any flow lies in
\* [0.2, 1.2], so predict is always above 0.5 and below 0.8, and a valid
\* prediction-cache hit never maps to UltraFast (> 0.8) nor to Adaptive
\* (<= 0.4).
C38_PredictionBounded ==
  /\ \A i \in Flows : \A t \in ScoringTimes :
       /\ LinearScore(flow_pool[i], t) >= 200000
       /\ LinearScore(flow_pool[i], t) <= 1200000
       /\ enhanced_ml_predict(flow_pool[i], t) > 5000
       /\ enhanced_ml_predict(flow_pool[i], t) < 8000
  /\ \A ip \in AllKeys : \A t \in ScoringTimes :
       PredictionValid(prediction_cache, ip, t)
         => /\ prediction_cache[PredIdx(ip)].prediction > 5000
            /\ prediction_cache[PredIdx(ip)].prediction < 8000
  /\ pc = "run"
       => \A ip \in dataset.keys :
            (ConsultsCache(ip) /\ PredictionValid(prediction_cache, ip, now))
              => Dispatch(ip, ACCELERATED_PATH).path
                   \in {FAST_PATH, ACCELERATED_PATH}

\* C38 witness: a flow with more than two hits whose next packet is served
\* from a prediction cached before the clock advanced, on the Fast path.
C38_Witness ==
  /\ pc = "run"
  /\ \E ip \in dataset.keys :
       /\ ConsultsCache(ip)
       /\ PredictionValid(prediction_cache, ip, now)
       /\ prediction_cache[PredIdx(ip)].timestamp < now
       /\ Dispatch(ip, ACCELERATED_PATH).path = FAST_PATH



(***************************************************************************)
(* The packet loop from a state late in a run: the arena holds the known   *)
(* flow of key 5 after some ten thousand packets (packet_count past the    *)
(* predictor's normalisation bound, hits wrapped, cache_hits far above     *)
(* hits), with a confidence below, at and above the UltraFast threshold.   *)
(* total_processed counts the packets from this state on.  Key 1074 maps   *)
(* to the prediction-cache slot of key 5.                                  *)
(***************************************************************************)
HotHits == {2, 3, 12}
HotConfidences == {75, 85, 100}

HotFlow(h, c) ==
  [KnownFlow(NewFlow(5, StartTime, NULL)) EXCEPT
     !.hits = h, !.confidence = c, !.packet_count = 10003 + h,
     !.cache_hits = 10000, !.promotion_score = 1000]

HotInit ==
  /\ pc = "run"
  /\ now = StartTime
  /\ dataset = [ known |-> <<5>>, keys |-> {5, 1074} ]
  /\ known_i = 2
  /\ flow_pool \in {<<HotFlow(h, c)>> : h \in HotHits, c \in HotConfidences}
  /\ buckets = [b \in Buckets |-> IF b = BucketOf(5) THEN 1 ELSE NULL]
  /\ fast_cache = [c \in CacheSlots |-> NULL]
  /\ sketch = [c \in SketchCells |-> 0]
  /\ prediction_cache =
       [s \in PredSlots |-> [ ip |-> 0, prediction |-> 0,
                              suggested_path |-> 0, timestamp |-> 0 ]]
  /\ path_counts = [p \in 0..5 |-> 0]
  /\ total_processed = 0
  /\ burst = [ burst_history |-> [j \in 0..(BURST_WINDOW_SIZE - 1) |-> 0],
               burst_index |-> 0, last_packet_count |-> 0, last_check |-> 0 ]
  /\ aging = [ last_aging_cycle |-> StartTime, flows_demoted |-> 0,
               flows_promoted |-> 0 ]
  /\ ultra_fast_promotions = 0
  /\ ticks = 0
  /\ true_count = [k \in AllKeys |-> 0]
  /\ decisions = <<>>
  /\ pq = [ entries |-> <<>>, drop_count |-> 0, lost |-> <<>> ]
  /\ visited = {}
  /\ known_flows = <<>>
  /\ known_count = 0
  /\ capacity = 0
  /\ packet_i = 0

HotNext == ClockTick \/ ProcessPacket

HotSpec == HotInit /\ [][HotNext]_vars

\* the slot of key ip holds a prediction stored for ip less than 30 s before t
EntryFresh(pcache, ip, t) ==
  /\ pcache[PredIdx(ip)].ip = ip
  /\ t - pcache[PredIdx(ip)].timestamp < 30

\* C39: a prediction-cache entry is written only when path selection falls
\* through to the main rule and is never refreshed while it is valid;
\* therefore a flow with hits > 2 whose slot is not overwritten by another
\* key is dispatched on UltraFast at most once per 30-second validity
\* window, whatever its confidence.  A packet that finds the entry of its
\* key fresh is not dispatched on UltraFast and leaves the cache as it is; a
\* packet of a flow with hits > 2 that is dispatched on UltraFast leaves an
\* entry that is fresh for the 30 s that follow; no other packet writes the
\* cache.
C39_UltraFastOncePerWindow ==
  pc = "run"
    => \A ip \in dataset.keys :
         \A d \in {Dispatch(ip, ACCELERATED_PATH)} :
           /\ (ConsultsCache(ip) /\ EntryFresh(prediction_cache, ip, now))
                => (d.path # ULTRA_FAST_PATH /\ d.pcache = prediction_cache)
           /\ (ConsultsCache(ip) /\ d.path = ULTRA_FAST_PATH)
                => /\ ~EntryFresh(prediction_cache, ip, now)
                   /\ \A t \in now..(now + 29) : EntryFresh(d.pcache, ip, t)
           /\ d.pcache # prediction_cache
                => /\ ConsultsCache(ip)
                   /\ ~EntryFresh(prediction_cache, ip, now)
                   /\ d.pcache[PredIdx(ip)].ip = ip
                   /\ d.pcache[PredIdx(ip)].timestamp = now
                   /\ d.pcache[PredIdx(ip)].suggested_path = d.path
                   /\ \A s \in PredSlots \ {PredIdx(ip)} :
                        d.pcache[s] = prediction_cache[s]

\* C39 witness: a flow with hits > 2 and confidence of at least 85 was
\* dispatched on UltraFast by the main rule, and its next packet, within the
\* window, finds the entry fresh and is served on the Fast path from it.
C39_Witness ==
  /\ pc = "run"
  /\ path_counts[ULTRA_FAST_PATH] > 0
  /\ \E ip \in dataset.keys :
       /\ ConsultsCache(ip)
       /\ EntryFresh(prediction_cache, ip, now)
       /\ prediction_cache[PredIdx(ip)].suggested_path = ULTRA_FAST_PATH
       /\ flow_pool[Lookup(ip)].confidence >= CONFIDENCE_ULTRA_FAST
       /\ Dispatch(ip, ACCELERATED_PATH).path = FAST_PATH



(***************************************************************************)
(* The immediate-learning variant, hybrid_immediate.c: main reads          *)
(* INITIAL_KNOWN_SIZE and the known keys, allocates 2 * INITIAL_KNOWN_SIZE *)
(* cells, and learns every packet key it does not find.                    *)
(* known_flows holds the cells written so far (cell i of the code is       *)
(* known_flows[i + 1]); capacity is the number of cells allocated.         *)
(***************************************************************************)
LearnKeys == {1, 2, 3, 4}
LearnGarbage == 0

LearnDatasets ==
  { [ known |-> k, keys |-> LearnKeys ] :
      k \in UNION { [1..n -> LearnKeys] : n \in 0..MaxKnownSize } }

\* int is_known_flow(int ip, int *known_flows, int known_count)
is_known_flow(ip, flows, count) ==
  \E i \in 1..count : flows[i] = ip

\* void add_known_flow(int ip, int **known_flows_ptr, int *known_count,
\* int *capacity).  The store to cell known_count is inside the allocation
\* when known_count < capacity after the resize; otherwise it is a write past
\* the end of the block realloc returned (for capacity 0 a block of no cells
\* or a null pointer): the program stops there ("fault"), or goes on with
\* the key or with something else in the cell.
add_known_flow(ip, flows, count, cap) ==
  IF is_known_flow(ip, flows, count)
    THEN { [ known_flows |-> flows, known_count |-> count,
             capacity |-> cap, fault |-> FALSE ] }
    ELSE LET c2 == IF count >= cap THEN cap * 2 ELSE cap
         IN  IF count < c2
               THEN { [ known_flows |-> Append(flows, ip),
                        known_count |-> count + 1,
                        capacity |-> c2, fault |-> FALSE ] }
               ELSE { [ known_flows |-> Append(flows, v),
                        known_count |-> count + 1,
                        capacity |-> c2, fault |-> FALSE ] :
                        v \in {ip, LearnGarbage} }
                    \cup
                    { [ known_flows |-> flows, known_count |-> count,
                        capacity |-> c2, fault |-> TRUE ] }

\* main, lines 59-77: the header and the known keys have been read
LearnInit ==
  /\ pc = "learn"
  /\ now = StartTime
  /\ dataset \in LearnDatasets
  /\ known_i = 1
  /\ flow_pool = <<>>
  /\ buckets = [b \in Buckets |-> NULL]
  /\ fast_cache = [c \in CacheSlots |-> NULL]
  /\ sketch = [c \in SketchCells |-> 0]
  /\ prediction_cache =
       [s \in PredSlots |-> [ ip |-> 0, prediction |-> 0,
                              suggested_path |-> 0, timestamp |-> 0 ]]
  /\ path_counts = [p \in 0..5 |-> 0]
  /\ total_processed = 0
  /\ burst = [ burst_history |-> [j \in 0..(BURST_WINDOW_SIZE - 1) |-> 0],
               burst_index |-> 0, last_packet_count |-> 0, last_check |-> 0 ]
  /\ aging = [ last_aging_cycle |-> StartTime, flows_demoted |-> 0,
               flows_promoted |-> 0 ]
  /\ ultra_fast_promotions = 0
  /\ ticks = 0
  /\ true_count = [k \in AllKeys |-> 0]
  /\ decisions = <<>>
  /\ pq = [ entries |-> <<>>, drop_count |-> 0, lost |-> <<>> ]
  /\ visited = {}
  /\ known_flows = dataset.known
  /\ known_count = Len(dataset.known)
  /\ capacity = Len(dataset.known) * 2
  /\ packet_i = 0

\* main, lines 94-104: one turn of the packet loop
LearnPacket(ip) ==
  /\ pc = "learn"
  /\ packet_i < MaxLearnPackets
  /\ packet_i' = packet_i + 1
  /\ IF is_known_flow(ip, known_flows, known_count)
       THEN UNCHANGED <<pc, known_flows, known_count, capacity>>
       ELSE \E r \in add_known_flow(ip, known_flows, known_count, capacity) :
              /\ known_flows' = r.known_flows
              /\ known_count' = r.known_count
              /\ capacity' = r.capacity
              /\ pc' = IF r.fault THEN "fault" ELSE pc
  /\ UNCHANGED <<now, dataset, known_i, flow_pool, buckets, fast_cache, sketch,
                 prediction_cache, path_counts, total_processed, burst, aging,
                 ultra_fast_promotions, ticks, true_count, decisions, pq,
                 visited>>

LearnNext == \E ip \in LearnKeys : LearnPacket(ip)

LearnSpec == LearnInit /\ [][LearnNext]_vars

\* C40: in the immediate-learning variant, after every add_known_flow call
\* known_count <= capacity, so every write of a newly learned key lands
\* inside the allocated known-flows table, for every initial known size
\* read from the dataset header including 0.
C40_KnownCountWithinCapacity ==
  /\ known_count <= capacity
  /\ Len(known_flows) = known_count
  /\ pc # "fault"

====
